---- MODULE Spec2Model ----
(***************************************************************************)
(* Script scoring pipeline of app/services/script_scoring_service.py:      *)
(* gate checks, quality dimensions, context multiplier, rizz score, and    *)
(* the score_video run that sequences them.                                *)
(*                                                                         *)
(* Conventions.                                                            *)
(*  - Text is a sequence of one-character strings, so that lower(),        *)
(*    substring tests and split() are computed, not assumed.               *)
(*  - Decimal numbers are integers in hundredths of a point (70.25 is      *)
(*    7025).  round(x, 1) is computed on the exact decimal, half to even;  *)
(*    the binary representation error of Python floats is not modelled.    *)
(*  - An optional value (Python None or a value) is <<>> or <<v>>.         *)
(*  - An LLM reply is the text returned by messages.create, held as a      *)
(*    sequence of tokens (fence lines, braces, body, prose) together with  *)
(*    the JSON value its braces enclose.                                   *)
(***************************************************************************)
EXTENDS Integers, Sequences, FiniteSets, TLC

VARIABLES
    pc,        \* position of the score_video run
    args,      \* arguments of the run: video_id, transcript, title, description, duration_seconds
    context,   \* the dict returned by _get_video_context (a function on the keys present)
    score,     \* the ScriptScore being built
    llm,       \* outcome of each LLM call made so far, by component
    io,        \* outcome of each data-collaborator call made so far
    approved_brands,  \* local_db table approved_brands: silo -> optional brand row
    multiplier_calls, \* the calls of compute_context_multiplier made outside a run, in order
    script_scores,    \* local_db table script_scores: (video_id, scored_at) -> row
    persisted,        \* the records store_script_score has written, in order
    last_read,        \* what the latest read of script_scores returned
    history,          \* the steps and LLM calls of the run, or the evaluations made, in order
    runs              \* the score_video runs in progress on one service instance, by video_id

vars == <<pc, args, context, score, llm, io, approved_brands,
          multiplier_calls, script_scores, persisted, last_read, history, runs>>

-----------------------------------------------------------------------------
(* Optional values *)

None == <<>>
Some(v) == <<v>>
IsNone(o) == o = <<>>
Val(o) == o[1]

-----------------------------------------------------------------------------
(* Decimal arithmetic *)

\* hundredths per point
Scale == 10 * 10

Abs(n) == IF n < 0 THEN -n ELSE n

Max(a, b) == IF a >= b THEN a ELSE b

Min(a, b) == IF a <= b THEN a ELSE b

\* nearest integer to n / d (d > 0), ties to the even integer: Python round()
RoundHalfEven(n, d) ==
    LET q == n \div d
        r == n % d
    IN  IF 2 * r < d THEN q
        ELSE IF 2 * r > d THEN q + 1
        ELSE IF q % 2 = 0 THEN q ELSE q + 1

\* round(x, 1) for x in hundredths; the result is in hundredths
Round1(x) == 10 * RoundHalfEven(x, 10)

\* round(a * b, 1) for a, b in hundredths; the result is in hundredths
RoundProduct1(a, b) == 10 * RoundHalfEven(a * b, 10 * Scale)

-----------------------------------------------------------------------------
(* Text *)

LowerChar(c) ==
    CASE c = "A" -> "a" [] c = "B" -> "b" [] c = "N" -> "n" [] c = "O" -> "o"
      [] c = "P" -> "p" [] c = "S" -> "s" [] c = "T" -> "t" [] c = "V" -> "v"
      [] OTHER -> c

\* str.lower()
ToLower(s) == [i \in 1..Len(s) |-> LowerChar(s[i])]

\* sub in s
Contains(sub, s) ==
    \E i \in 0..(Len(s) - Len(sub)) : SubSeq(s, i + 1, i + Len(sub)) = sub

\* str.split(): the maximal runs of non-space characters
RECURSIVE SplitFrom(_, _, _)
SplitFrom(s, i, word) ==
    IF i > Len(s)
    THEN IF word = <<>> THEN <<>> ELSE <<word>>
    ELSE IF s[i] = " "
         THEN (IF word = <<>> THEN <<>> ELSE <<word>>) \o SplitFrom(s, i + 1, <<>>)
         ELSE SplitFrom(s, i + 1, Append(word, s[i]))

Split(s) == SplitFrom(s, 1, <<>>)

\* dict.get(key, default)
Get(d, key, default) == IF key \in DOMAIN d THEN d[key] ELSE default

-----------------------------------------------------------------------------
(* JSON values of an LLM reply *)

\* a key that is absent, JSON null, a JSON value of another type than expected
\* (a string where a number or an object is expected), or the value itself
JAbsent == [t |-> "absent"]
JNull == [t |-> "null"]
JOther == [t |-> "other"]
JNum(n) == [t |-> "num", n |-> n]
JBool(b) == [t |-> "bool", b |-> b]
JStr(s) == [t |-> "str", s |-> s]

\* bool(x) of a JSON value held in a Python attribute
Truthy(j) ==
    CASE j.t = "bool" -> j.b
      [] j.t = "num" -> j.n # 0
      [] j.t = "str" -> j.s # ""
      [] OTHER -> FALSE

-----------------------------------------------------------------------------
(* Layer 1: gate checks *)

GateNames == <<"Brand Alignment", "SEO Title Compliance", "Partner Safety",
               "Cross-Video Coherence", "Funnel Match", "Factual Accuracy">>

\* gate_map of _run_ai_gate_checks, in its iteration order
GateMap == << <<"partner_safety", "Partner Safety">>,
              <<"cross_video_coherence", "Cross-Video Coherence">>,
              <<"funnel_match", "Funnel Match">>,
              <<"factual_accuracy", "Factual Accuracy">> >>

GateKeys == {GateMap[i][1] : i \in 1..Len(GateMap)}

\* a failure_reason: the message template and the values formatted into it
Reason(kind, texts, nums) == [kind |-> kind, texts |-> texts, nums |-> nums]

NoReason == Reason("", <<>>, <<>>)

GateCheckResult(gate_name, passed, failure_reason) ==
    [gate_name |-> gate_name, passed |-> passed, failure_reason |-> failure_reason]

\* Fault for C12: the query has lost its WHERE clause and fetches any row
GetAnyApprovedBrand(table, silo, query_ok) ==
    IF query_ok /\ DOMAIN table # {}
    THEN table[CHOOSE s \in DOMAIN table : TRUE]
    ELSE None

\* local_db.get_approved_brand_for_silo: the row, or None when there is none
\* or when the query fails
GetApprovedBrandForSilo(table, silo, query_ok) ==
    IF query_ok /\ silo \in DOMAIN table THEN table[silo] ELSE None

\* Fault for C24: the secondary brand does not count
CheckBrandAlignmentPrimaryOnly(transcript, description, ctx, approved) ==
    LET silo == Get(ctx, "silo", <<>>)
    IN  IF silo = <<>>
        THEN GateCheckResult("Brand Alignment", JBool(TRUE),
                             Reason("No silo assigned - skipped", <<>>, <<>>))
        ELSE IF IsNone(approved)
        THEN GateCheckResult("Brand Alignment", JBool(TRUE),
                 Reason("No approved brand defined for this silo - skipped", <<>>, <<>>))
        ELSE IF Contains(ToLower(Val(approved).primary_brand),
                         ToLower(transcript \o <<" ">> \o description))
        THEN GateCheckResult("Brand Alignment", JBool(TRUE), NoReason)
        ELSE GateCheckResult("Brand Alignment", JBool(FALSE),
                 Reason("Approved brand not found in the transcript or description",
                        <<silo, Val(approved).primary_brand>>, <<>>))

\* Gate 1.  approved is the result of get_approved_brand_for_silo(silo),
\* which is called only for a non-empty silo.
CheckBrandAlignment(transcript, description, ctx, approved) ==
    LET silo == Get(ctx, "silo", <<>>)
    IN  IF silo = <<>>
        THEN GateCheckResult("Brand Alignment", JBool(TRUE),
                             Reason("No silo assigned - skipped", <<>>, <<>>))
        ELSE IF IsNone(approved)
        THEN GateCheckResult("Brand Alignment", JBool(TRUE),
                 Reason("No approved brand defined for this silo - skipped", <<>>, <<>>))
        ELSE
          LET brand == Val(approved)
              primary_brand == ToLower(brand.primary_brand)
              secondary_brand == IF IsNone(brand.secondary_brand) THEN <<>>
                                 ELSE ToLower(Val(brand.secondary_brand))
              combined_text == ToLower(transcript \o <<" ">> \o description)
              has_primary == Contains(primary_brand, combined_text)
              has_secondary == IF secondary_brand # <<>>
                               THEN Contains(secondary_brand, combined_text)
                               ELSE FALSE
          IN  IF has_primary
              THEN GateCheckResult("Brand Alignment", JBool(TRUE), NoReason)
              ELSE IF has_secondary
              THEN GateCheckResult("Brand Alignment", JBool(TRUE),
                       Reason("Using secondary brand, not primary",
                              <<Val(brand.secondary_brand), brand.primary_brand>>, <<>>))
              ELSE GateCheckResult("Brand Alignment", JBool(FALSE),
                       Reason("Approved brand not found in the transcript or description",
                              <<silo, brand.primary_brand>>, <<>>))

\* Fault for C23: half of the significant words suffice for a partial match
CheckSeoTitleHalf(title, ctx) ==
    LET keyword == Get(ctx, "main_keyword", <<>>)
        title_lower == ToLower(title)
        keyword_lower == ToLower(keyword)
        keyword_words == SelectSeq(Split(keyword_lower), LAMBDA w : Len(w) >= 3)
        matches == Cardinality({i \in 1..Len(keyword_words) :
                                    Contains(keyword_words[i], title_lower)})
    IN  IF keyword = <<>>
        THEN GateCheckResult("SEO Title Compliance", JBool(TRUE),
                             Reason("No target keyword assigned - skipped", <<>>, <<>>))
        ELSE IF Contains(keyword_lower, title_lower)
        THEN GateCheckResult("SEO Title Compliance", JBool(TRUE), NoReason)
        ELSE IF keyword_words # <<>> /\ 10 * matches >= 5 * Len(keyword_words)
        THEN GateCheckResult("SEO Title Compliance", JBool(TRUE),
                 Reason("Partial keyword match", <<>>, <<matches, Len(keyword_words)>>))
        ELSE GateCheckResult("SEO Title Compliance", JBool(FALSE),
                 Reason("Target keyword not found in title", <<keyword, title>>, <<>>))

\* Gate 2
CheckSeoTitle(title, ctx) ==
    LET keyword == Get(ctx, "main_keyword", <<>>)
        title_lower == ToLower(title)
        keyword_lower == ToLower(keyword)
        all_words == Split(keyword_lower)
        keyword_words == SelectSeq(all_words, LAMBDA w : Len(w) >= 3)
        matches == Cardinality({i \in 1..Len(keyword_words) :
                                    Contains(keyword_words[i], title_lower)})
    IN  IF keyword = <<>>
        THEN GateCheckResult("SEO Title Compliance", JBool(TRUE),
                             Reason("No target keyword assigned - skipped", <<>>, <<>>))
        ELSE IF Contains(keyword_lower, title_lower)
        THEN GateCheckResult("SEO Title Compliance", JBool(TRUE), NoReason)
        ELSE IF keyword_words # <<>> /\ 10 * matches >= 6 * Len(keyword_words)
        THEN GateCheckResult("SEO Title Compliance", JBool(TRUE),
                 Reason("Partial keyword match", <<>>, <<matches, Len(keyword_words)>>))
        ELSE GateCheckResult("SEO Title Compliance", JBool(FALSE),
                 Reason("Target keyword not found in title", <<keyword, title>>, <<>>))

-----------------------------------------------------------------------------
(* LLM replies *)

\* client.messages.create raises
LlmRaise == [outcome |-> "raise"]

\* client.messages.create returns text; data is the JSON value the text
\* denotes when it parses
LlmText(text, data) == [outcome |-> "text", text |-> text, data |-> data]

\* the tokens of a reply text: a line that opens a markdown code fence (three
\* backquotes and a language tag), a line of three backquotes, the brackets of
\* the JSON document, its body, and prose around it
FenceOpen == "fence-json"
FenceClose == "fence"
Tokens == {FenceOpen, FenceClose, "{", "}", "[", "]", "body", "prose"}

\* _parse_json_response: a text that starts with a code fence loses its first
\* line and, if it then ends with a fence, that fence
ParseJsonResponse(text) ==
    IF text # <<>> /\ Head(text) \in {FenceOpen, FenceClose}
    THEN LET rest == Tail(text)
         IN  IF rest # <<>> /\ rest[Len(rest)] = FenceClose
             THEN SubSeq(rest, 1, Len(rest) - 1)
             ELSE rest
    ELSE text

\* json.loads succeeds on a complete JSON document and on nothing else
JsonLoadsOk(text) == text \in {<<"{", "body", "}">>, <<"[", "body", "]">>}

\* the parsed document is a JSON object (a Python dict)
JsonIsObject(text) == text # <<>> /\ Head(text) = "{"

\* the try block reaches the parsed dict: no raise from the call, the stripped
\* text parses, and it is a dict (data.get on a list raises AttributeError)
ReplyIsDict(reply) ==
    /\ reply.outcome = "text"
    /\ JsonLoadsOk(ParseJsonResponse(reply.text))
    /\ JsonIsObject(ParseJsonResponse(reply.text))

-----------------------------------------------------------------------------
(* Gates 3-6 *)

UnavailableReason == Reason("Gate check unavailable - API error", <<>>, <<>>)

\* Fault for C2: the except branch fails closed
AiGateFailClosed ==
    [i \in 1..Len(GateMap) |-> GateCheckResult(GateMap[i][2], JBool(FALSE), UnavailableReason)]

\* the except branch of _run_ai_gate_checks
AiGateFallback ==
    [i \in 1..Len(GateMap) |-> GateCheckResult(GateMap[i][2], JBool(TRUE), UnavailableReason)]

\* gate_data.get('failure_reason', '')
AiReason(entry) ==
    IF entry.failure_reason = JAbsent THEN NoReason
    ELSE Reason(entry.failure_reason.s, <<>>, <<>>)

\* one pass of the gate_map loop
AiGateResult(gate_name, entry) ==
    IF entry = JAbsent
    THEN GateCheckResult(gate_name, JBool(TRUE), NoReason)
    ELSE GateCheckResult(gate_name,
                         IF entry.passed = JAbsent THEN JBool(TRUE) ELSE entry.passed,
                         AiReason(entry))

\* Fault for C1: the loop runs over the keys of the reply, not over gate_map
AiGateResultsOfReplyKeys(reply) ==
    IF /\ ReplyIsDict(reply)
       /\ \A k \in GateKeys : Get(reply.data, k, JAbsent).t \in {"absent", "obj"}
    THEN LET present == SelectSeq(GateMap, LAMBDA g : Get(reply.data, g[1], JAbsent) # JAbsent)
         IN  [i \in 1..Len(present) |-> AiGateResult(present[i][2], reply.data[present[i][1]])]
    ELSE AiGateFallback

\* the try/except of _run_ai_gate_checks, given the reply of the one LLM call
AiGateResults(reply) ==
    IF /\ ReplyIsDict(reply)
       /\ \A k \in GateKeys : Get(reply.data, k, JAbsent).t \in {"absent", "obj"}
    THEN [i \in 1..Len(GateMap) |->
              AiGateResult(GateMap[i][2], Get(reply.data, GateMap[i][1], JAbsent))]
    ELSE AiGateFallback

\* the sibling-transcript loop of _run_ai_gate_checks, which runs before the
\* try block: bigquery.get_transcript has no handler of its own
SiblingLookupRaises(ctx, siblings) ==
    Get(ctx, "main_keyword", <<>>) # <<>> /\ siblings = "transcript_raises"

\* _run_ai_gate_checks
RunAiGateChecks(ctx, siblings, reply) ==
    IF SiblingLookupRaises(ctx, siblings)
    THEN [raised |-> TRUE, results |-> <<>>]
    ELSE [raised |-> FALSE, results |-> AiGateResults(reply)]

\* run_gate_checks
RunGateChecks(transcript, title, description, ctx, approved, siblings, reply) ==
    LET ai == RunAiGateChecks(ctx, siblings, reply)
    IN  IF ai.raised
        THEN [raised |-> TRUE, results |-> <<>>]
        ELSE [raised |-> FALSE,
              results |-> << CheckBrandAlignment(transcript, description, ctx, approved),
                             CheckSeoTitle(title, ctx) >> \o ai.results]

\* Fault for C5: any() in place of all()
AnyPassed(gate_results) == \E i \in 1..Len(gate_results) : Truthy(gate_results[i].passed)

\* all(g.passed for g in gate_results)
AllPassed(gate_results) == \A i \in 1..Len(gate_results) : Truthy(gate_results[i].passed)

-----------------------------------------------------------------------------
(* Layer 2: quality score *)

\* result key, reply key
Dimensions == << <<"specificity_score", "specificity_proof_density">>,
                 <<"conversion_arch_score", "conversion_architecture">>,
                 <<"retention_arch_score", "retention_architecture">>,
                 <<"authenticity_score", "authenticity_voice">>,
                 <<"viewer_respect_score", "viewer_sophistication">>,
                 <<"production_score", "production_standards">> >>

DimensionKeys == {Dimensions[i][2] : i \in 1..Len(Dimensions)}

\* data.get(dimension, {}).get('total', 0)
DimensionTotal(data, key) ==
    LET entry == Get(data, key, JAbsent)
    IN  IF entry = JAbsent THEN JNum(0)
        ELSE IF entry.total = JAbsent THEN JNum(0) ELSE entry.total

RECURSIVE SumTotals(_, _)
SumTotals(data, i) ==
    IF i = 0 THEN 0 ELSE DimensionTotal(data, Dimensions[i][2]).n + SumTotals(data, i - 1)

\* data.get('quality_score_total', 0)
ReportedTotal(data) ==
    IF Get(data, "quality_score_total", JAbsent) = JAbsent THEN JNum(0)
    ELSE data.quality_score_total

\* the paths of the try block that raise: the call, json.loads, .get on a value
\* that is no dict, arithmetic on a total that is no number
QualityRaises(reply) ==
    \/ ~ReplyIsDict(reply)
    \/ \E k \in DimensionKeys : Get(reply.data, k, JAbsent).t \notin {"absent", "obj"}
    \/ \E k \in DimensionKeys : DimensionTotal(reply.data, k).t # "num"
    \/ ReportedTotal(reply.data).t # "num"

\* Fault for C6: the reported total is kept whatever the sum
ReportedTotalKept(reported, expected_total) == reported

\* the total kept after the validation of lines 569-577
ValidatedTotal(reported, expected_total) ==
    IF Abs(reported - expected_total) > 1 * Scale
    THEN Round1(expected_total)
    ELSE reported

\* score_quality, given the reply of the one LLM call: None, or the result dict
ScoreQuality(reply) ==
    IF QualityRaises(reply) THEN None
    ELSE LET data == reply.data
             reported == ReportedTotal(data).n
             expected_total == SumTotals(data, Len(Dimensions))
         IN  Some([quality_score_total |-> ValidatedTotal(reported, expected_total),
                   specificity_score |-> DimensionTotal(data, "specificity_proof_density").n,
                   conversion_arch_score |-> DimensionTotal(data, "conversion_architecture").n,
                   retention_arch_score |-> DimensionTotal(data, "retention_architecture").n,
                   authenticity_score |-> DimensionTotal(data, "authenticity_voice").n,
                   viewer_respect_score |-> DimensionTotal(data, "viewer_sophistication").n,
                   production_score |-> DimensionTotal(data, "production_standards").n,
                   action_items |-> Get(data, "top_3_action_items", <<>>)])

-----------------------------------------------------------------------------
(* Layer 3: context multiplier *)

\* bucket -> (multiplier in hundredths, quality_floor)
MULTIPLIER_TABLE ==
    [b \in {"tier1_low_dom", "tier1_high_dom", "tier2_proven", "tier2_unproven", "ai_skeleton"} |->
        CASE b = "tier1_low_dom" -> <<150, 80>>
          [] b = "tier1_high_dom" -> <<100, 70>>
          [] b = "tier2_proven" -> <<120, 70>>
          [] b = "tier2_unproven" -> <<80, 60>>
          [] b = "ai_skeleton" -> <<50, 50>>]

\* _check_revenue_exists.  perf is the list get_affiliate_performance returns,
\* as the total_revenue of each row ([] when its query fails).  The rows are
\* AffiliatePerformance objects, which have no get method: on a non-empty list
\* the any() raises AttributeError and the handler returns False.
CheckRevenueExists(perf) ==
    IF perf = <<>> THEN FALSE    \* bool([] and ...)
    ELSE FALSE                   \* except Exception: return False

\* Fault for C10: a context that could not be fetched gets the defaults
\* score_video falls back to, multiplier 1.0 and floor 60
ComputeContextMultiplierDefaulting(ctx, approved, perf) ==
    [keyword_tier |-> "ai_skeleton", domination_score |-> None,
     avg_domination_score |-> None,
     multiplier |-> IF DOMAIN ctx = {} THEN 100 ELSE 50,
     quality_floor |-> IF DOMAIN ctx = {} THEN 60 ELSE 50,
     bucket |-> "ai_skeleton"]

\* compute_context_multiplier.  approved is the result of
\* get_approved_brand_for_silo (called only for a non-empty silo), perf the
\* outcome of get_affiliate_performance (called only for tier2).
ComputeContextMultiplier(ctx, approved, perf) ==
    LET silo == Get(ctx, "silo", <<>>)
        latest_dom == Get(ctx, "latest_domination_score", None)
        avg_dom == Get(ctx, "avg_domination_score", None)
        keyword_tier == IF silo = <<>> THEN "ai_skeleton"
                        ELSE IF ~IsNone(approved) THEN "tier1" ELSE "tier2"
        domination_pct == latest_dom
        bucket == IF keyword_tier = "ai_skeleton" THEN "ai_skeleton"
                  ELSE IF keyword_tier = "tier1"
                  THEN IF ~IsNone(domination_pct) /\ Val(domination_pct) >= 90 * Scale
                       THEN "tier1_high_dom" ELSE "tier1_low_dom"
                  ELSE IF CheckRevenueExists(perf) THEN "tier2_proven" ELSE "tier2_unproven"
    IN  [keyword_tier |-> keyword_tier,
         domination_score |-> domination_pct,
         avg_domination_score |-> avg_dom,
         multiplier |-> MULTIPLIER_TABLE[bucket][1],
         quality_floor |-> MULTIPLIER_TABLE[bucket][2],
         bucket |-> bucket]

-----------------------------------------------------------------------------
(* Layer 4: rizz score *)
(* A transcript is held as its text together with what the regular          *)
(* expressions and statistics of the scorers measure on it: word, filler     *)
(* and phrase counts, and the coefficients of variation in thousandths.      *)
(* Emotion data is held as the number of segments and the mean, standard     *)
(* deviation and final-20% mean of the per-segment confidence, in 1/10000.   *)
(* The text of a sample transcript is the excerpt the brand gate searches;   *)
(* the measurements describe the whole transcript.                           *)

Clamp(lo, hi, x) == Min(hi, Max(lo, x))

\* duration_minutes as a fraction <<numerator, denominator>>:
\* max(duration_seconds / 60, 1) if duration_seconds else max(word_count / 150, 1)
DurationMinutes(transcript, duration_seconds) ==
    IF duration_seconds # 0
    THEN <<Max(duration_seconds, 60), 60>>
    ELSE <<Max(transcript.word_count, 150), 150>>

\* Fault for C21: a rate of exactly 1 is outside the full-score band
FillerScoreOpenBand(n, d) ==
    LET filler_score ==
            IF d < n /\ n <= 3 * d THEN 20
            ELSE IF n <= d THEN 10
            ELSE IF n <= 5 * d THEN Max(5, RoundHalfEven(85 * d - 15 * n, 2 * d))
            ELSE Max(2, RoundHalfEven(10 * d - n, d))
    IN  Clamp(0, 20, filler_score)

\* Sub-metric 4 of _score_rizz_vocal, for fillers_per_min = n / d
FillerScore(n, d) ==
    LET filler_score ==
            IF d <= n /\ n <= 3 * d THEN 20
            ELSE IF n < d THEN 10
            ELSE IF n <= 5 * d THEN Max(5, RoundHalfEven(85 * d - 15 * n, 2 * d))
            ELSE Max(2, RoundHalfEven(10 * d - n, d))
    IN  Clamp(0, 20, filler_score)

\* _compute_pacing_variation; cv is None for a transcript under 50 words or
\* under 3 chunks
PacingVariation(cv) ==
    IF IsNone(cv) THEN 10
    ELSE IF 150 <= Val(cv) /\ Val(cv) <= 350 THEN 20
    ELSE IF Val(cv) < 150 THEN Max(5, RoundHalfEven(20 * Val(cv), 150))
    ELSE Max(5, RoundHalfEven(20000 - 30 * (Val(cv) - 350), 1000))

\* Sub-metric 1
ConvictionScore(avg_confidence) == Min(20, RoundHalfEven(40 * avg_confidence, 10000))

\* Sub-metric 2
ConsistencyScore(n, std_dev) ==
    IF n > 1
    THEN Clamp(0, 20,
               IF 600 <= std_dev /\ std_dev <= 1400 THEN 20
               ELSE IF std_dev < 600 THEN RoundHalfEven(20 * std_dev, 600)
               ELSE Max(0, RoundHalfEven(200000 - 100 * (std_dev - 1400), 10000)))
    ELSE 10

\* Sub-metric 3, for delta = cta_avg - overall_avg
CtaDeltaScore(delta) ==
    IF delta >= 0
    THEN Min(20, RoundHalfEven(20 * delta, 1000))
    ELSE Max(0, RoundHalfEven(100000 + 200 * delta, 10000))

\* Fault for C18: without emotion data the two transcript sub-scores are
\* summed and not rescaled
ScoreRizzVocalUnscaled(emotions_data, transcript, duration_seconds) ==
    LET dm == DurationMinutes(transcript, duration_seconds)
        filler == FillerScore(transcript.filler_count * dm[2], dm[1])
        pacing == PacingVariation(transcript.pacing_cv)
    IN  [available |-> FALSE, total_raw |-> Scale * (filler + pacing),
         conviction_score |-> 0, conviction_consistency |-> 0, cta_conviction_delta |-> 0,
         filler_density_score |-> filler, pacing_variation_score |-> pacing]

\* _score_rizz_vocal; total_raw in hundredths
ScoreRizzVocal(emotions_data, transcript, duration_seconds) ==
    LET dm == DurationMinutes(transcript, duration_seconds)
        filler == FillerScore(transcript.filler_count * dm[2], dm[1])
        pacing == PacingVariation(transcript.pacing_cv)
        base == [available |-> FALSE, total_raw |-> 0, conviction_score |-> 0,
                 conviction_consistency |-> 0, cta_conviction_delta |-> 0,
                 filler_density_score |-> filler, pacing_variation_score |-> pacing]
    IN  IF IsNone(emotions_data) \/ Val(emotions_data).segments = 0
        THEN [base EXCEPT !.total_raw = Round1(((filler + pacing) * 100 * Scale) \div 40)]
        ELSE LET e == Val(emotions_data)
                 conviction == ConvictionScore(e.avg_confidence)
                 consistency == ConsistencyScore(e.segments, e.std_dev)
                 delta == IF e.segments > 1 THEN e.cta_avg - e.avg_confidence ELSE 0
                 cta == CtaDeltaScore(delta)
             IN  [base EXCEPT !.available = TRUE,
                              !.conviction_score = conviction,
                              !.conviction_consistency = consistency,
                              !.cta_conviction_delta = cta,
                              !.total_raw = Scale * Min(100, conviction + consistency + cta
                                                             + filler + pacing)]

\* Fault for C3: the except branch scores the sub-metric 0
PersonalityFallbackZero == [score |-> 0, moments |-> 0, total_count |-> 0, per_minute |-> 0]

\* the except branch of _score_personality_density
PersonalityFallback == [score |-> 10, moments |-> 0, total_count |-> 0, per_minute |-> 0]

\* data.get('total_count', 0)
TotalCount(data) ==
    IF Get(data, "total_count", JAbsent) = JAbsent THEN JNum(0) ELSE data.total_count

\* the paths of its try block that raise: the call, json.loads, .get on a list,
\* division of a total_count that is no number
PersonalityRaises(reply) ==
    \/ ~ReplyIsDict(reply)
    \/ TotalCount(reply.data).t # "num"

\* _score_personality_density for duration_minutes = dm[1] / dm[2]; moments is
\* held as the length of the list
ScorePersonalityDensity(reply, dm) ==
    IF PersonalityRaises(reply) THEN PersonalityFallback
    ELSE LET total == TotalCount(reply.data).n
             t == total * dm[2]
             points == IF 2 * t >= dm[1] THEN 25
                      ELSE IF 10 * t >= 3 * dm[1] THEN 20
                      ELSE IF 10 * t >= 2 * dm[1] THEN 15
                      ELSE IF 10 * t >= dm[1] THEN 10
                      ELSE Max(3, RoundHalfEven(100 * t, dm[1]))
         IN  [score |-> Min(25, points),
              moments |-> Min(5, Get(reply.data, "moments", 0)),
              total_count |-> total,
              per_minute |-> RoundHalfEven(100 * t, dm[1])]

\* Fault for C22: the upper boundary 0.7 is outside the full-score band and
\* the falloff above it starts at 24
SentenceVariationOpenBand(cv) ==
    IF IsNone(cv) THEN 10
    ELSE Clamp(0, 25,
               IF 400 <= Val(cv) /\ Val(cv) < 700 THEN 25
               ELSE IF Val(cv) < 200 THEN 5
               ELSE IF Val(cv) < 400 THEN RoundHalfEven(1000 + 20 * (Val(cv) - 200), 200)
               ELSE Max(10, RoundHalfEven(24000 - 25 * (Val(cv) - 700), 1000)))

\* Sub-metric 2 of _score_rizz_copy; cv is None under 5 sentences
SentenceVariation(cv) ==
    IF IsNone(cv) THEN 10
    ELSE Clamp(0, 25,
               IF 400 <= Val(cv) /\ Val(cv) <= 700 THEN 25
               ELSE IF Val(cv) < 200 THEN 5
               ELSE IF Val(cv) < 400 THEN RoundHalfEven(1000 + 20 * (Val(cv) - 200), 200)
               ELSE Max(10, RoundHalfEven(25000 - 25 * (Val(cv) - 700), 1000)))

\* Fault for C20: the lowest band has no floor
DecisiveScoreUnfloored(decisive_count, hedging_count) ==
    LET n == decisive_count
        d == IF hedging_count = 0 THEN 1 ELSE hedging_count
    IN  IF n >= 3 * d THEN 25
        ELSE IF n >= 2 * d THEN 20
        ELSE IF n >= d THEN 15
        ELSE IF 2 * n >= d THEN 10
        ELSE RoundHalfEven(20 * n, d)

\* Sub-metric 3
DecisiveScore(decisive_count, hedging_count) ==
    LET n == decisive_count
        d == IF hedging_count = 0 THEN 1 ELSE hedging_count
        decisive_score == IF n >= 3 * d THEN 25
                          ELSE IF n >= 2 * d THEN 20
                          ELSE IF n >= d THEN 15
                          ELSE IF 2 * n >= d THEN 10
                          ELSE Max(3, RoundHalfEven(20 * n, d))
    IN  Min(25, decisive_score)

\* Fault for C19: the first-person ratio is scored with the thresholds of the
\* decisive ratio in every band
FirstPersonOnDecisiveCurve(first_person_count, generic_count) ==
    LET n == first_person_count
        d == IF generic_count = 0 THEN 1 ELSE generic_count
    IN  IF n >= 3 * d THEN 25
        ELSE IF n >= 2 * d THEN 20
        ELSE IF n >= d THEN 15
        ELSE IF 2 * n >= d THEN 10
        ELSE Max(3, RoundHalfEven(20 * n, d))

\* Sub-metric 4
FirstPersonScore(first_person_count, generic_count) ==
    LET n == first_person_count
        d == IF generic_count = 0 THEN 1 ELSE generic_count
        fp_score == IF n >= 2 * d THEN 25
                    ELSE IF 2 * n >= 3 * d THEN 20
                    ELSE IF n >= d THEN 15
                    ELSE IF 2 * n >= d THEN 10
                    ELSE Max(3, RoundHalfEven(20 * n, d))
    IN  Min(25, fp_score)

\* _score_rizz_copy; total_raw in hundredths
ScoreRizzCopy(transcript, duration_seconds, reply) ==
    LET personality == ScorePersonalityDensity(reply, DurationMinutes(transcript, duration_seconds))
        sentence == SentenceVariation(transcript.sentence_cv)
        decisive == DecisiveScore(transcript.decisive_count, transcript.hedging_count)
        first_person == FirstPersonScore(transcript.first_person_count, transcript.generic_count)
    IN  [personality_density |-> personality.score,
         personality_moments_found |-> personality.moments,
         personality_per_min |-> personality.per_minute,
         sentence_variation |-> sentence,
         decisive_language |-> decisive,
         first_person_experience |-> first_person,
         total_raw |-> Scale * Min(100, personality.score + sentence + decisive + first_person)]

\* Fault for C17: the vocal total enters the score unweighted
ScoreRizzUnweighted(transcript, emotions_data, duration_seconds, reply) ==
    LET vocal_result == ScoreRizzVocal(emotions_data, transcript, duration_seconds)
        copy_result == ScoreRizzCopy(transcript, duration_seconds, reply)
        vocal_weighted == Round1(vocal_result.total_raw)
        copy_weighted == RoundProduct1(copy_result.total_raw, 40)
    IN  [rizz_score |-> Round1(vocal_weighted + copy_weighted),
         rizz_vocal_score |-> vocal_weighted,
         rizz_copy_score |-> copy_weighted,
         rizz_details |-> [vocal |-> vocal_result, copy |-> copy_result,
                           vocal_available |-> vocal_result.available]]

\* score_rizz
ScoreRizz(transcript, emotions_data, duration_seconds, reply) ==
    LET vocal_result == ScoreRizzVocal(emotions_data, transcript, duration_seconds)
        copy_result == ScoreRizzCopy(transcript, duration_seconds, reply)
        vocal_weighted == RoundProduct1(vocal_result.total_raw, 60)
        copy_weighted == RoundProduct1(copy_result.total_raw, 40)
    IN  [rizz_score |-> Round1(vocal_weighted + copy_weighted),
         rizz_vocal_score |-> vocal_weighted,
         rizz_copy_score |-> copy_weighted,
         rizz_details |-> [vocal |-> vocal_result, copy |-> copy_result,
                           vocal_available |-> vocal_result.available]]

-----------------------------------------------------------------------------
(* score_video *)

\* ScriptScore(video_id=..., scored_at=now, scoring_version=...): the fields
\* no scorer has written yet are None
NewScriptScore(video_id) ==
    [video_id |-> video_id,
     gate_results |-> <<>>, all_gates_passed |-> None,
     quality_score_total |-> None,
     specificity_score |-> None, conversion_arch_score |-> None,
     retention_arch_score |-> None, authenticity_score |-> None,
     viewer_respect_score |-> None, production_score |-> None,
     action_items |-> <<>>,
     keyword_tier |-> None, domination_score |-> None,
     context_multiplier |-> None, quality_floor |-> None,
     multiplied_score |-> None, passes_quality_floor |-> None,
     rizz_score |-> None, rizz_vocal_score |-> None, rizz_copy_score |-> None,
     rizz_details |-> None]

\* lines 104-105
ApplyGates(sc, gate_results) ==
    [sc EXCEPT !.gate_results = gate_results,
               !.all_gates_passed = Some(AllPassed(gate_results))]

\* Fault for C8: a failed quality call is recorded as zeros
ApplyQualityOrZeros(sc, quality_result) ==
    LET r == IF IsNone(quality_result)
             THEN [quality_score_total |-> 0, specificity_score |-> 0,
                   conversion_arch_score |-> 0, retention_arch_score |-> 0,
                   authenticity_score |-> 0, viewer_respect_score |-> 0,
                   production_score |-> 0, action_items |-> <<>>]
             ELSE Val(quality_result)
    IN  [sc EXCEPT !.quality_score_total = Some(r.quality_score_total),
                   !.specificity_score = Some(r.specificity_score),
                   !.conversion_arch_score = Some(r.conversion_arch_score),
                   !.retention_arch_score = Some(r.retention_arch_score),
                   !.authenticity_score = Some(r.authenticity_score),
                   !.viewer_respect_score = Some(r.viewer_respect_score),
                   !.production_score = Some(r.production_score),
                   !.action_items = r.action_items]

\* lines 113-122
ApplyQuality(sc, quality_result) ==
    IF IsNone(quality_result) THEN sc
    ELSE LET r == Val(quality_result)
         IN  [sc EXCEPT !.quality_score_total = Some(r.quality_score_total),
                        !.specificity_score = Some(r.specificity_score),
                        !.conversion_arch_score = Some(r.conversion_arch_score),
                        !.retention_arch_score = Some(r.retention_arch_score),
                        !.authenticity_score = Some(r.authenticity_score),
                        !.viewer_respect_score = Some(r.viewer_respect_score),
                        !.production_score = Some(r.production_score),
                        !.action_items = r.action_items]

\* Fault for C9: the product is cut to one decimal, not rounded
ApplyMultipliedScoreTruncated(sc) ==
    IF IsNone(sc.quality_score_total) THEN sc
    ELSE [sc EXCEPT !.multiplied_score =
                        Some(10 * ((Val(sc.quality_score_total) * Val(sc.context_multiplier))
                                   \div (10 * Scale))),
                    !.passes_quality_floor =
                        Some(Val(sc.quality_score_total) >= Val(sc.quality_floor) * Scale)]

\* lines 133-135, once the multiplier fields are written
ApplyMultipliedScore(sc) ==
    IF IsNone(sc.quality_score_total) THEN sc
    ELSE [sc EXCEPT !.multiplied_score =
                        Some(RoundProduct1(Val(sc.quality_score_total), Val(sc.context_multiplier))),
                    !.passes_quality_floor =
                        Some(Val(sc.quality_score_total) >= Val(sc.quality_floor) * Scale)]

\* lines 127-135
ApplyMultiplier(sc, multiplier_result) ==
    ApplyMultipliedScore(
        [sc EXCEPT !.keyword_tier = Some(multiplier_result.keyword_tier),
                   !.domination_score = multiplier_result.domination_score,
                   !.context_multiplier = Some(multiplier_result.multiplier),
                   !.quality_floor = Some(multiplier_result.quality_floor)])

\* Fault for C29: only the score is copied into the record
ApplyRizzScoreOnly(sc, rizz_result) ==
    [sc EXCEPT !.rizz_score = Some(rizz_result.rizz_score)]

\* lines 148-151
ApplyRizz(sc, rizz_result) ==
    [sc EXCEPT !.rizz_score = Some(rizz_result.rizz_score),
               !.rizz_vocal_score = Some(rizz_result.rizz_vocal_score),
               !.rizz_copy_score = Some(rizz_result.rizz_copy_score),
               !.rizz_details = Some(rizz_result.rizz_details)]

-----------------------------------------------------------------------------
(* Sample inputs *)

BrandNord == <<"N", "o", "r", "d">>
BrandSurf == <<"S", "u", "r", "f">>
SiloVpn == <<"v", "p", "n">>
SiloWeb == <<"w", "e", "b">>
KeywordBestVpn == <<"b", "e", "s", "t", " ", "v", "p", "n">>

TranscriptNord ==
    [text |-> <<"N", "O", "R", "D", " ", "o", "k">>,
     word_count |-> 900, filler_count |-> 12, pacing_cv |-> Some(200),
     sentence_cv |-> Some(500), decisive_count |-> 6, hedging_count |-> 2,
     first_person_count |-> 3, generic_count |-> 2]

TranscriptSurf ==
    [text |-> <<"s", "u", "r", "f">>,
     word_count |-> 40, filler_count |-> 0, pacing_cv |-> None,
     sentence_cv |-> None, decisive_count |-> 0, hedging_count |-> 0,
     first_person_count |-> 0, generic_count |-> 0]

TranscriptPlain ==
    [text |-> <<"o", "k">>,
     word_count |-> 300, filler_count |-> 9, pacing_cv |-> Some(100),
     sentence_cv |-> Some(300), decisive_count |-> 1, hedging_count |-> 3,
     first_person_count |-> 1, generic_count |-> 1]

TitleBestVpn == <<"B", "e", "s", "t", " ", "V", "P", "N">>
TitleVpnTop == <<"v", "p", "n", " ", "t", "o", "p">>
TitleTop == <<"t", "o", "p">>

\* the arguments of a score_video call
Arguments ==
    { [video_id |-> "v1", transcript |-> TranscriptNord, title |-> TitleBestVpn,
       description |-> <<>>, duration_seconds |-> 600],
      [video_id |-> "v1", transcript |-> TranscriptSurf, title |-> TitleVpnTop,
       description |-> <<>>, duration_seconds |-> 0],
      [video_id |-> "v1", transcript |-> TranscriptPlain, title |-> TitleTop,
       description |-> <<"n", "o", "r", "d">>, duration_seconds |-> 0],
      [video_id |-> "v1", transcript |-> TranscriptPlain, title |-> TitleTop,
       description |-> <<>>, duration_seconds |-> 600] }

\* what bigquery.get_video_context returns
VideoContexts ==
    [silo : {<<>>, SiloVpn, SiloWeb},
     main_keyword : {<<>>, KeywordBestVpn},
     latest_domination_score : {None, Some(8999), Some(9000)},
     avg_domination_score : {None}]

\* the contexts a run draws from
RunContexts ==
    { c \in VideoContexts :
        \/ c.silo = <<>> /\ c.latest_domination_score = None
        \/ c.silo = SiloVpn /\ c.main_keyword = KeywordBestVpn
        \/ c.silo = SiloWeb /\ c.main_keyword = <<>> /\ c.latest_domination_score = Some(9000) }

\* rows of the approved_brands table
ApprovedBrandTables ==
    { [s \in {SiloVpn} |-> Some([primary_brand |-> BrandNord,
                                 secondary_brand |-> Some(BrandSurf)])] }

\* what get_affiliate_performance returns: the total_revenue of each row
PerformanceLists == { <<>>, <<0>>, <<1250>> }

\* the row local_db.get_transcript returns, or None
StoredTranscripts ==
    { None,
      Some([emotions |-> None, duration_seconds |-> 300]),
      Some([emotions |-> Some([t |-> "dict", segments |-> 0]), duration_seconds |-> 0]),
      Some([emotions |-> Some([t |-> "dict", segments |-> 12, avg_confidence |-> 3000,
                               std_dev |-> 1000, cta_avg |-> 3500]),
            duration_seconds |-> 300]),
      Some([emotions |-> Some([t |-> "list"]), duration_seconds |-> 300]) }

\* texts that parse after _parse_json_response, and texts that do not
ParseableTexts == { <<"{", "body", "}">>,
                    <<FenceOpen, "{", "body", "}", FenceClose>> }

UnparseableTexts == { <<"{", "body">>,
                      <<FenceOpen, "{", "body">>,
                      <<"prose", "{", "body", "}">>,
                      <<"prose">> }

ListTexts == { <<"[", "body", "]">> }

\* replies whose text does not reach the parsed dict, whatever it was meant to hold
BrokenReplies ==
    {LlmRaise} \cup {LlmText(t, <<>>) : t \in UnparseableTexts \cup ListTexts}

\* the entries an AI-gate reply can hold for one gate
GateEntries ==
    { JAbsent, JOther,
      [t |-> "obj", passed |-> JAbsent, failure_reason |-> JAbsent],
      [t |-> "obj", passed |-> JBool(TRUE), failure_reason |-> JStr("")],
      [t |-> "obj", passed |-> JBool(FALSE), failure_reason |-> JStr("llm reason")],
      [t |-> "obj", passed |-> JNull, failure_reason |-> JAbsent],
      [t |-> "obj", passed |-> JStr("yes"), failure_reason |-> JAbsent] }

\* every reply of the AI-gate call whose gate entries are among entries
GateRepliesOver(entries) ==
    BrokenReplies \cup
    {LlmText(t, d) : t \in ParseableTexts, d \in [GateKeys -> entries]}

PassEntry == [t |-> "obj", passed |-> JBool(TRUE), failure_reason |-> JStr("")]

FailEntry == [t |-> "obj", passed |-> JBool(FALSE), failure_reason |-> JStr("llm reason")]

\* the replies of the AI-gate call a run draws from: a raise, a truncated text,
\* a JSON list, a fenced reply that passes all gates, a reply that fails one,
\* a reply that holds no gate entry, a reply with an entry that is no object,
\* a reply whose passed values are no booleans
GateReplies ==
    { LlmRaise,
      LlmText(<<FenceOpen, "{", "body">>, <<>>),
      LlmText(<<"[", "body", "]">>, <<>>),
      LlmText(<<FenceOpen, "{", "body", "}", FenceClose>>, [k \in GateKeys |-> PassEntry]),
      LlmText(<<"{", "body", "}">>,
              [k \in GateKeys |-> IF k = "funnel_match" THEN FailEntry ELSE PassEntry]),
      LlmText(<<"{", "body", "}">>, [k \in GateKeys |-> JAbsent]),
      LlmText(<<"{", "body", "}">>,
              [k \in GateKeys |-> IF k = "partner_safety" THEN JOther ELSE PassEntry]),
      LlmText(<<"{", "body", "}">>,
              [k \in GateKeys |->
                  IF k = "factual_accuracy"
                  THEN [t |-> "obj", passed |-> JNull, failure_reason |-> JAbsent]
                  ELSE [t |-> "obj", passed |-> JStr("yes"), failure_reason |-> JAbsent]]) }

\* the six dimension entries of a quality reply, its reported total and its
\* list of action items
QualityData(totals, reported, items) ==
    [specificity_proof_density |-> totals[1], conversion_architecture |-> totals[2],
     retention_architecture |-> totals[3], authenticity_voice |-> totals[4],
     viewer_sophistication |-> totals[5], production_standards |-> totals[6],
     quality_score_total |-> reported, top_3_action_items |-> items]

DimObj(total) == [t |-> "obj", total |-> total]

RECURSIVE SumSeq(_)
SumSeq(q) == IF q = <<>> THEN 0 ELSE Head(q) + SumSeq(Tail(q))

\* a reply whose dimension totals are the numbers of q and whose reported total
\* is off their sum by delta
NumericQualityData(q, delta, items) ==
    QualityData([i \in 1..Len(q) |-> DimObj(JNum(q[i]))], JNum(SumSeq(q) + delta), items)

\* dimension totals an LLM can report: within the stated range, with decimals,
\* above the range, negative
DimensionTotals == {825, 3000, -500}

\* how far the reported total can be off the sum of the dimension totals
TotalDeviations == {-101, -100, 0, 50, 100, 101}

\* the longest list of action items a reply holds
MaxActionItems == 4

ActionItems == [i \in 1..MaxActionItems |-> i]

\* quality replies that reach the parsed dict and still raise
IllTypedQualityData ==
    { QualityData([i \in 1..6 |-> IF i = 2 THEN JOther ELSE DimObj(JNum(1000))], JNum(6000), <<>>),
      QualityData([i \in 1..6 |-> IF i = 3 THEN DimObj(JNull) ELSE DimObj(JNum(1000))], JNum(6000), <<>>),
      QualityData([i \in 1..6 |-> DimObj(JNum(1000))], JNull, <<>>) }

\* every reply of the quality call whose dimension totals are among totals
\* and whose reported total is absent or off their sum by one of deviations
QualityRepliesOver(totals, deviations) ==
    BrokenReplies \cup
    {LlmText(<<"{", "body", "}">>, d) : d \in IllTypedQualityData} \cup
    {LlmText(<<"{", "body", "}">>, NumericQualityData(q, delta, SubSeq(ActionItems, 1, 3))) :
        q \in [1..6 -> totals], delta \in deviations} \cup
    {LlmText(<<"{", "body", "}">>,
             QualityData([i \in 1..6 |-> DimObj(JNum(q[i]))], JAbsent, <<>>)) :
        q \in [1..6 -> totals]}

\* the replies of the quality call a run draws from: a raise, a prose answer,
\* a dimension that is no object, a fenced reply whose total is the sum, a
\* total within 1 of the sum, a total further off a sum with decimals, totals
\* above their range, a reply that names one dimension only
QualityReplies ==
    { LlmRaise,
      LlmText(<<"prose">>, <<>>),
      LlmText(<<"{", "body", "}">>,
              QualityData([i \in 1..6 |-> IF i = 2 THEN JOther ELSE DimObj(JNum(1000))],
                          JNum(6000), <<>>)),
      LlmText(<<FenceOpen, "{", "body", "}", FenceClose>>,
              NumericQualityData(<<2000, 1500, 1500, 1000, 800, 700>>, 0, SubSeq(ActionItems, 1, 3))),
      LlmText(<<"{", "body", "}">>,
              NumericQualityData(<<2000, 1500, 1500, 1000, 800, 725>>, 100, SubSeq(ActionItems, 1, 3))),
      LlmText(<<"{", "body", "}">>,
              NumericQualityData(<<825, 1000, 1000, 1000, 1000, 1000>>, 1000, ActionItems)),
      LlmText(<<"{", "body", "}">>,
              NumericQualityData(<<3000, 3000, 3000, 3000, 3000, 3000>>, 0, <<>>)),
      LlmText(<<"{", "body", "}">>,
              QualityData([i \in 1..6 |-> IF i = 1 THEN DimObj(JNum(1510)) ELSE JAbsent],
                          JAbsent, <<>>)) }

\* the replies of the personality-density call a run draws from
PersonalityReplies ==
    { LlmRaise,
      LlmText(<<"{", "body">>, <<>>),
      LlmText(<<FenceOpen, "{", "body", "}", FenceClose>>, [total_count |-> JNum(3), moments |-> 7]),
      LlmText(<<"{", "body", "}">>, [total_count |-> JNum(0), moments |-> 0]),
      LlmText(<<"{", "body", "}">>, [total_count |-> JNull, moments |-> 2]) }

-----------------------------------------------------------------------------
(* State *)

NoCalls == [gates |-> None, quality |-> None, personality |-> None]

\* the entry of history for a step of score_video
StepEntry(name) == [kind |-> "step", name |-> name]

\* Fault for C26: a call whose reply does not give a dict is issued again
LlmCallsRetried(component, reply) ==
    IF ReplyIsDict(reply)
    THEN <<[kind |-> "llm", name |-> component]>>
    ELSE <<[kind |-> "llm", name |-> component], [kind |-> "llm", name |-> component]>>

\* the calls of client.messages.create a component makes: one, whatever the
\* reply, since each except branch returns the fallback
LlmCalls(component, reply) == <<[kind |-> "llm", name |-> component]>>

Init ==
    /\ pc = "context"
    /\ args \in Arguments
    /\ context = <<>>
    /\ score = NewScriptScore(args.video_id)
    /\ llm = NoCalls
    /\ io = {}
    /\ approved_brands \in ApprovedBrandTables
    /\ multiplier_calls = <<>>
    /\ script_scores = <<>>
    /\ persisted = <<>>
    /\ last_read = None
    /\ history = <<>>
    /\ runs = <<>>

\* _get_video_context: the dict of bigquery.get_video_context, or {} when it raises
FetchContext ==
    /\ pc = "context"
    /\ \/ /\ context' \in RunContexts
          /\ io' = io
       \/ /\ context' = <<>>
          /\ io' = io \cup {"video_context"}
    /\ pc' = "gates"
    /\ history' = Append(history, StepEntry("context"))
    /\ UNCHANGED <<args, score, llm, approved_brands, multiplier_calls, script_scores, persisted, last_read, runs>>

\* Layer 1 of score_video: run_gate_checks with the outcomes of its
\* collaborators (the approved-brand query, the partner query, the sibling
\* lookup) and the reply drawn from replies
GateStep(replies) ==
    /\ pc = "gates"
    /\ \E brand_ok \in BOOLEAN, partners_ok \in BOOLEAN,
          siblings \in {"none", "found", "transcript_raises"}, reply \in replies :
        LET silo == Get(context, "silo", <<>>)
            keyword == Get(context, "main_keyword", <<>>)
            approved == GetApprovedBrandForSilo(approved_brands, silo, brand_ok)
            gates == RunGateChecks(args.transcript.text, args.title, args.description,
                                   context, approved, siblings, reply)
            failed == (IF brand_ok THEN {} ELSE {"approved_brand"})
                      \cup (IF partners_ok THEN {} ELSE {"partner_list"})
                      \cup (IF siblings = "transcript_raises" THEN {"sibling_transcript"} ELSE {})
        IN  /\ silo = <<>> => brand_ok
            /\ keyword = <<>> => siblings = "none"
            /\ gates.raised => reply = LlmRaise
            /\ io' = io \cup failed
            /\ IF gates.raised
               THEN /\ pc' = "raised"
                    /\ history' = Append(history, StepEntry("gates"))
                    /\ UNCHANGED <<score, llm>>
               ELSE /\ pc' = "quality"
                    /\ score' = ApplyGates(score, gates.results)
                    /\ llm' = [llm EXCEPT !.gates = Some(reply)]
                    /\ history' = Append(history, StepEntry("gates"))
                                       \o LlmCalls("gates", reply)
    /\ UNCHANGED <<args, context, approved_brands, multiplier_calls, script_scores, persisted, last_read, runs>>

\* Layer 2 of score_video
QualityStep(replies) ==
    /\ pc = "quality"
    /\ \E reply \in replies :
        /\ score' = ApplyQuality(score, ScoreQuality(reply))
        /\ llm' = [llm EXCEPT !.quality = Some(reply)]
        /\ history' = Append(history, StepEntry("quality")) \o LlmCalls("quality", reply)
    /\ pc' = "multiplier"
    /\ UNCHANGED <<args, context, io, approved_brands, multiplier_calls, script_scores, persisted, last_read, runs>>

\* Layer 3 of score_video; a failure of its own approved-brand query, the
\* second of the run, is noted as approved_brand_tier
MultiplierStep ==
    /\ pc = "multiplier"
    /\ \E brand_ok \in BOOLEAN, perf \in PerformanceLists :
        LET silo == Get(context, "silo", <<>>)
            approved == IF silo # <<>>
                        THEN GetApprovedBrandForSilo(approved_brands, silo, brand_ok)
                        ELSE None
        IN  /\ silo = <<>> => brand_ok
            /\ (silo = <<>> \/ ~IsNone(approved)) => perf = <<>>
            /\ score' = ApplyMultiplier(score, ComputeContextMultiplier(context, approved, perf))
            /\ io' = io \cup (IF brand_ok THEN {} ELSE {"approved_brand_tier"})
    /\ pc' = "rizz"
    /\ history' = Append(history, StepEntry("multiplier"))
    /\ UNCHANGED <<args, context, llm, approved_brands, multiplier_calls, script_scores, persisted, last_read, runs>>

\* Layer 4 of score_video: the try block of lines 140-154.  A stored emotions
\* value that is no dict makes score_rizz raise before the personality call.
RizzStep(replies) ==
    /\ pc = "rizz"
    /\ \E stored_ok \in BOOLEAN, stored \in StoredTranscripts, reply \in replies :
        LET transcript_data == IF stored_ok THEN stored ELSE None
            emotions_data == IF IsNone(transcript_data) THEN None
                             ELSE Val(transcript_data).emotions
            duration_seconds == IF args.duration_seconds = 0 /\ ~IsNone(transcript_data)
                                THEN Val(transcript_data).duration_seconds
                                ELSE args.duration_seconds
            raises == ~IsNone(emotions_data) /\ Val(emotions_data).t # "dict"
        IN  /\ ~stored_ok => stored = None
            /\ raises => reply = LlmRaise
            /\ io' = io \cup (IF stored_ok THEN {} ELSE {"stored_transcript"})
            /\ IF raises
               THEN /\ history' = Append(history, StepEntry("rizz"))
                    /\ UNCHANGED <<score, llm>>
               ELSE /\ score' = ApplyRizz(score, ScoreRizz(args.transcript, emotions_data,
                                                           duration_seconds, reply))
                    /\ llm' = [llm EXCEPT !.personality = Some(reply)]
                    /\ history' = Append(history, StepEntry("rizz"))
                                       \o LlmCalls("personality", reply)
    /\ pc' = "done"
    /\ UNCHANGED <<args, context, approved_brands, multiplier_calls, script_scores, persisted, last_read, runs>>

Next ==
    \/ FetchContext
    \/ GateStep(GateReplies)
    \/ QualityStep(QualityReplies)
    \/ MultiplierStep
    \/ RizzStep(PersonalityReplies)

Spec == Init /\ [][Next]_vars

\* run_gate_checks alone, over every reply of the AI-gate call
InitGates ==
    /\ pc = "gates"
    /\ args \in {a \in Arguments : a.duration_seconds = 600}
    /\ context \in {c \in RunContexts : c.latest_domination_score = Some(9000)} \cup {<<>>}
    /\ score = NewScriptScore(args.video_id)
    /\ llm = NoCalls
    /\ io = {}
    /\ approved_brands \in ApprovedBrandTables
    /\ multiplier_calls = <<>>
    /\ script_scores = <<>>
    /\ persisted = <<>>
    /\ last_read = None
    /\ history = <<>>
    /\ runs = <<>>

NextGates == GateStep(GateRepliesOver(GateEntries))

SpecGates == InitGates /\ [][NextGates]_vars

\* score_quality alone, over every reply of the quality call
InitQuality ==
    /\ pc = "quality"
    /\ args \in {a \in Arguments : a.transcript = TranscriptNord}
    /\ context = <<>>
    /\ score = NewScriptScore(args.video_id)
    /\ llm = NoCalls
    /\ io = {}
    /\ approved_brands \in ApprovedBrandTables
    /\ multiplier_calls = <<>>
    /\ script_scores = <<>>
    /\ persisted = <<>>
    /\ last_read = None
    /\ history = <<>>
    /\ runs = <<>>

NextQuality == QualityStep(QualityRepliesOver(DimensionTotals, TotalDeviations))

SpecQuality == InitQuality /\ [][NextQuality]_vars

\* the silos and rows the approved-brands routes write
StoredSilos == {SiloVpn, SiloWeb}

BrandRows == { [primary_brand |-> BrandNord, secondary_brand |-> Some(BrandSurf)],
               [primary_brand |-> BrandSurf, secondary_brand |-> None] }

\* the most calls of compute_context_multiplier made on one context
MaxCalls == 2

\* compute_context_multiplier called on its own, on the context in hand.  The
\* call is noted with what its two collaborators answered (the approved-brand
\* row, the revenue rows), whether the approved-brand query ran, and whether
\* the table held a row for the silo.
ComputeMultiplierCall ==
    /\ pc = "calls"
    /\ Len(multiplier_calls) < MaxCalls
    /\ \E brand_ok \in BOOLEAN, perf_ok \in BOOLEAN, perf \in PerformanceLists :
        LET silo == Get(context, "silo", <<>>)
            approved == IF silo # <<>>
                        THEN GetApprovedBrandForSilo(approved_brands, silo, brand_ok)
                        ELSE None
            rows == IF perf_ok THEN perf ELSE <<>>
        IN  /\ silo = <<>> => brand_ok
            /\ (silo = <<>> \/ ~IsNone(approved)) => (perf_ok /\ perf = <<>>)
            /\ ~perf_ok => perf = <<>>
            /\ multiplier_calls' =
                   Append(multiplier_calls,
                          [approved |-> approved, perf |-> rows,
                           brand_ok |-> brand_ok,
                           mapped |-> silo \in DOMAIN approved_brands,
                           result |-> ComputeContextMultiplier(context, approved, rows)])
    /\ UNCHANGED <<pc, args, context, score, llm, io, approved_brands, script_scores, persisted, last_read, history, runs>>

\* where the approved-brands routes can run: between calls of
\* compute_context_multiplier, and between the steps of a score_video run
BrandWritePoints == {"calls", "gates", "quality", "multiplier"}

\* local_db.store_approved_brand: insert the row or replace the row of the
\* silo; on a database error nothing is written and False is returned
StoreApprovedBrand ==
    /\ pc \in BrandWritePoints
    /\ \E silo \in StoredSilos, row \in BrandRows, ok \in BOOLEAN :
        approved_brands' =
            IF ok
            THEN [s \in DOMAIN approved_brands \cup {silo} |->
                     IF s = silo THEN Some(row) ELSE approved_brands[s]]
            ELSE approved_brands
    /\ UNCHANGED <<pc, args, context, score, llm, io, multiplier_calls, script_scores, persisted, last_read, history, runs>>

\* local_db.delete_approved_brand
DeleteApprovedBrand ==
    /\ pc \in BrandWritePoints
    /\ \E silo \in StoredSilos, ok \in BOOLEAN :
        approved_brands' =
            IF ok
            THEN [s \in DOMAIN approved_brands \ {silo} |-> approved_brands[s]]
            ELSE approved_brands
    /\ UNCHANGED <<pc, args, context, score, llm, io, multiplier_calls, script_scores, persisted, last_read, history, runs>>

\* compute_context_multiplier alone, over every context, with the
\* approved-brands routes running between its calls
InitMultiplier ==
    /\ pc = "calls"
    /\ args \in {a \in Arguments : a.transcript = TranscriptNord}
    /\ context \in VideoContexts \cup {<<>>}
    /\ score = NewScriptScore(args.video_id)
    /\ llm = NoCalls
    /\ io = {}
    /\ approved_brands \in ApprovedBrandTables \cup {<<>>}
    /\ multiplier_calls = <<>>
    /\ script_scores = <<>>
    /\ persisted = <<>>
    /\ last_read = None
    /\ history = <<>>
    /\ runs = <<>>

NextMultiplier ==
    \/ ComputeMultiplierCall
    \/ StoreApprovedBrand
    \/ DeleteApprovedBrand

SpecMultiplier == InitMultiplier /\ [][NextMultiplier]_vars

\* a score_video run with the approved-brands routes running between its
\* steps; the LLM calls of the run all raise
InitBrandWrites ==
    /\ Init
    /\ args.transcript = TranscriptNord

NextBrandWrites ==
    \/ FetchContext
    \/ GateStep({LlmRaise})
    \/ QualityStep({LlmRaise})
    \/ MultiplierStep
    \/ RizzStep({LlmRaise})
    \/ StoreApprovedBrand
    \/ DeleteApprovedBrand

SpecBrandWrites == InitBrandWrites /\ [][NextBrandWrites]_vars

-----------------------------------------------------------------------------
(* The script_scores table *)

\* scored_at values: datetime.now() of a run, as seconds and microseconds
Clock == [sec : {1, 2}, micro : {0, 500000}]

\* datetime.isoformat(): the seconds, and the microseconds only when they are
\* not zero.  The text is held as its fixed-width fields.
IsoFormat(t) == IF t.micro = 0 THEN <<t.sec>> ELSE <<t.sec, t.micro>>

\* the time an isoformat text stands for
FromIsoFormat(text) ==
    [sec |-> text[1], micro |-> IF Len(text) > 1 THEN text[2] ELSE 0]

\* order of two TEXT values in SQL: field by field, a prefix first
RECURSIVE TextLess(_, _)
TextLess(a, b) ==
    IF a = <<>> THEN b # <<>>
    ELSE IF b = <<>> THEN FALSE
    ELSE IF Head(a) # Head(b) THEN Head(a) < Head(b)
    ELSE TextLess(Tail(a), Tail(b))

\* the ScriptScore objects handed to store_script_score, by the fields that
\* tell them apart
StoredVideos == {"v1", "v2"}

ScoreRecords ==
    [video_id : StoredVideos, scored_at : Clock, multiplied_score : {None, Some(11440)}]

\* the row store_script_score writes for a ScriptScore
RowOf(record) ==
    [video_id |-> record.video_id, scored_at |-> IsoFormat(record.scored_at),
     multiplied_score |-> record.multiplied_score]

RowKey(row) == <<row.video_id, row.scored_at>>

\* the rows of the table
Rows(table) == {table[k] : k \in DOMAIN table}

\* the most store_script_score calls that succeed
MaxStores == 3

\* Fault for C13: the write keeps one row per video
ReplaceVideoRows(table, row) ==
    [k \in {j \in DOMAIN table : j[1] # row.video_id} \cup {RowKey(row)} |->
        IF k = RowKey(row) THEN row ELSE table[k]]

\* INSERT OR REPLACE INTO script_scores / ON CONFLICT (video_id, scored_at) DO
\* UPDATE: the row is added, or takes the place of the row with its key
InsertOrReplace(table, row) ==
    [k \in DOMAIN table \cup {RowKey(row)} |-> IF k = RowKey(row) THEN row ELSE table[k]]

\* local_db.store_script_score; on a database error nothing is written
StoreScriptScore ==
    /\ pc = "store"
    /\ Len(persisted) < MaxStores
    /\ \E record \in ScoreRecords, ok \in BOOLEAN :
        IF ok
        THEN /\ script_scores' = InsertOrReplace(script_scores, RowOf(record))
             /\ persisted' = Append(persisted, record)
        ELSE UNCHANGED <<script_scores, persisted>>
    /\ last_read' = None
    /\ UNCHANGED <<pc, args, context, score, llm, io, approved_brands, multiplier_calls, history, runs>>

\* Fault for C14: ORDER BY scored_at without DESC
OldestRow(table, video_id) ==
    LET rows == {r \in Rows(table) : r.video_id = video_id}
    IN  IF rows = {} THEN None
        ELSE Some(CHOOSE r \in rows :
                      \A q \in rows : q = r \/ TextLess(r.scored_at, q.scored_at))

\* SELECT * FROM script_scores WHERE video_id = ? ORDER BY scored_at DESC LIMIT 1
LatestRow(table, video_id) ==
    LET rows == {r \in Rows(table) : r.video_id = video_id}
    IN  IF rows = {} THEN None
        ELSE Some(CHOOSE r \in rows :
                      \A q \in rows : q = r \/ TextLess(q.scored_at, r.scored_at))

\* local_db.get_script_score: the latest row of the video, None when it has
\* none or the query fails
GetScriptScore ==
    /\ pc = "store"
    /\ \E video_id \in StoredVideos, ok \in BOOLEAN :
        last_read' = Some([op |-> "get_script_score", video_id |-> video_id, ok |-> ok,
                           result |-> IF ok THEN LatestRow(script_scores, video_id) ELSE None])
    /\ UNCHANGED <<pc, args, context, score, llm, io, approved_brands, multiplier_calls,
                   script_scores, persisted, history, runs>>

\* the rows of the join of get_all_script_scores: those whose scored_at is the
\* MAX(scored_at) of their video
LatestRows(table) ==
    {r \in Rows(table) :
        \A q \in Rows(table) :
            q.video_id = r.video_id => (q = r \/ TextLess(q.scored_at, r.scored_at))}

\* ORDER BY s.multiplied_score DESC NULLS LAST
SortedByMultipliedScore(list) ==
    \A i, j \in 1..Len(list) :
        i < j => \/ IsNone(list[j].multiplied_score)
                 \/ /\ ~IsNone(list[i].multiplied_score)
                    /\ Val(list[i].multiplied_score) >= Val(list[j].multiplied_score)

\* the lists that hold each row of a set once
ListsOf(rows) ==
    {list \in [1..Cardinality(rows) -> rows] : {list[i] : i \in 1..Len(list)} = rows}

\* local_db.get_all_script_scores: [] when the query fails
GetAllScriptScores ==
    /\ pc = "store"
    /\ \E ok \in BOOLEAN :
        \E list \in IF ok THEN {l \in ListsOf(LatestRows(script_scores)) :
                                    SortedByMultipliedScore(l)}
                    ELSE {<<>>} :
            last_read' = Some([op |-> "get_all_script_scores", video_id |-> "", ok |-> ok,
                               result |-> list])
    /\ UNCHANGED <<pc, args, context, score, llm, io, approved_brands, multiplier_calls,
                   script_scores, persisted, history, runs>>

\* the script_scores table under stores and reads
InitStore ==
    /\ pc = "store"
    /\ args \in {a \in Arguments : a.transcript = TranscriptNord}
    /\ context = <<>>
    /\ score = NewScriptScore(args.video_id)
    /\ llm = NoCalls
    /\ io = {}
    /\ approved_brands \in ApprovedBrandTables
    /\ multiplier_calls = <<>>
    /\ script_scores = <<>>
    /\ persisted = <<>>
    /\ last_read = None
    /\ history = <<>>
    /\ runs = <<>>

NextStore ==
    \/ StoreScriptScore
    \/ GetScriptScore
    \/ GetAllScriptScores

SpecStore == InitStore /\ [][NextStore]_vars

-----------------------------------------------------------------------------
(* score_rizz over transcripts, durations, emotion series and replies *)

\* the most decisive (and first-person) phrases a transcript holds
MaxDecisive == 6

\* the most hedging (and generic) phrases a transcript holds
MaxHedging == 3

\* the transcripts handed to score_rizz, by what the scorers measure on them;
\* a transcript under 50 words has no pacing coefficient
RizzTranscripts ==
    { [text |-> <<>>, word_count |-> w[1], filler_count |-> f, pacing_cv |-> w[2],
       sentence_cv |-> s, decisive_count |-> a, hedging_count |-> b,
       first_person_count |-> IF same THEN a ELSE 1,
       generic_count |-> IF same THEN b ELSE 2] :
        w \in {<<40, None>>, <<600, Some(200)>>, <<600, Some(1000)>>},
        f \in {0, 2, 9},
        s \in {None, Some(550)},
        a \in 0..MaxDecisive,
        b \in 0..MaxHedging,
        same \in BOOLEAN }

\* the duration_seconds handed to score_rizz
RizzDurations == {0, 60, 600}

\* the emotions_data handed to score_rizz: None, a dict without segments, and
\* dicts with the statistics of their per-segment confidence
EmotionSeries ==
    { None, Some([t |-> "dict", segments |-> 0]) } \cup
    { Some([t |-> "dict", segments |-> e[1], avg_confidence |-> e[2],
            std_dev |-> e[3], cta_avg |-> e[4]]) :
        e \in { <<1, 2000, 0, 2000>>, <<12, 0, 0, 0>>, <<12, 3000, 1000, 3500>>,
                <<12, 30000, 300, 30000>>, <<12, 5000, 9000, 1000>>,
                <<12, 5000, 1000, 10000>> } }

\* the replies of the personality-density call: a raise, a truncated text, and
\* objects with and without a total_count
RizzReplies ==
    { LlmRaise, LlmText(<<"{", "body">>, <<>>),
      LlmText(<<"{", "body", "}">>, [moments |-> 0]) } \cup
    { LlmText(<<"{", "body", "}">>, [total_count |-> c, moments |-> 2]) :
        c \in {JNum(-1), JNum(0), JNum(1), JNum(50), JNull} }

\* a call of score_rizz: args holds its transcript and duration, last_read its
\* emotions_data
ScoreRizzCall ==
    /\ pc = "rizz_call"
    /\ \E reply \in RizzReplies :
        /\ score' = ApplyRizz(score, ScoreRizz(args.transcript, last_read,
                                               args.duration_seconds, reply))
        /\ llm' = [llm EXCEPT !.personality = Some(reply)]
    /\ pc' = "rizz_done"
    /\ UNCHANGED <<args, context, io, approved_brands, multiplier_calls, script_scores,
                   persisted, last_read, history, runs>>

InitRizz ==
    /\ pc = "rizz_call"
    /\ args \in [video_id : {"v1"}, transcript : RizzTranscripts, title : {TitleTop},
                 description : {<<>>}, duration_seconds : RizzDurations]
    /\ context = <<>>
    /\ score = NewScriptScore(args.video_id)
    /\ llm = NoCalls
    /\ io = {}
    /\ approved_brands = <<>>
    /\ multiplier_calls = <<>>
    /\ script_scores = <<>>
    /\ persisted = <<>>
    /\ last_read \in EmotionSeries
    /\ history = <<>>
    /\ runs = <<>>

NextRizz == ScoreRizzCall

SpecRizz == InitRizz /\ [][NextRizz]_vars

-----------------------------------------------------------------------------
(* The sub-score curves of the rizz scorers, each applied to inputs of its   *)
(* own; history holds the evaluations made, in order.                        *)

\* the most evaluations held
MaxEvaluations == 2

\* filler_count and duration_seconds of an evaluation of sub-metric 4
FillerInputs == {0, 5, 10, 30, 31, 35, 50, 61, 62, 80, 200} \X {30, 600, 1200}

\* the coefficient of variation of the sentence lengths in thousandths, or
\* None for a transcript under 5 sentences
SentenceInputs ==
    {None} \cup {Some(cv) : cv \in {0, 100, 199, 200, 300, 399, 400, 550, 700, 701,
                                    1000, 1300, 2000, 5000}}

\* cta_avg - overall_avg in ten-thousandths
DeltaInputs == {-30000, -3000, -500, -100, -1, 0, 1, 100, 500, 1000, 3000, 30000}

\* sub-metric 4 on a filler count and a duration: fillers_per_min is
\* filler_count / max(duration_seconds / 60, 1)
EvaluateFiller ==
    /\ pc = "curves"
    /\ Len(history) < MaxEvaluations
    /\ \E x \in FillerInputs :
        LET n == x[1] * 60
            d == Max(x[2], 60)
        IN  history' = Append(history, [fn |-> "filler", n |-> n, d |-> d,
                                        result |-> FillerScore(n, d)])
    /\ UNCHANGED <<pc, args, context, score, llm, io, approved_brands, multiplier_calls,
                   script_scores, persisted, last_read, runs>>

\* sub-metric 2 of the copy scorer on a coefficient of variation
EvaluateSentence ==
    /\ pc = "curves"
    /\ Len(history) < MaxEvaluations
    /\ \E cv \in SentenceInputs :
        history' = Append(history, [fn |-> "sentence", cv |-> cv,
                                    result |-> SentenceVariation(cv)])
    /\ UNCHANGED <<pc, args, context, score, llm, io, approved_brands, multiplier_calls,
                   script_scores, persisted, last_read, runs>>

\* sub-metric 3 of the vocal scorer on a delta
EvaluateCtaDelta ==
    /\ pc = "curves"
    /\ Len(history) < MaxEvaluations
    /\ \E delta \in DeltaInputs :
        history' = Append(history, [fn |-> "cta", delta |-> delta,
                                    result |-> CtaDeltaScore(delta)])
    /\ UNCHANGED <<pc, args, context, score, llm, io, approved_brands, multiplier_calls,
                   script_scores, persisted, last_read, runs>>

InitCurves ==
    /\ pc = "curves"
    /\ args \in {a \in Arguments : a.transcript = TranscriptNord}
    /\ context = <<>>
    /\ score = NewScriptScore(args.video_id)
    /\ llm = NoCalls
    /\ io = {}
    /\ approved_brands = <<>>
    /\ multiplier_calls = <<>>
    /\ script_scores = <<>>
    /\ persisted = <<>>
    /\ last_read = None
    /\ history = <<>>
    /\ runs = <<>>

NextCurves ==
    \/ EvaluateFiller
    \/ EvaluateSentence
    \/ EvaluateCtaDelta

SpecCurves == InitCurves /\ [][NextCurves]_vars

-----------------------------------------------------------------------------
(* Gates 1 and 2, each applied to inputs of its own; history holds the       *)
(* evaluations made, in order.                                               *)

\* the most gate evaluations held
MaxGateEvaluations == 2

\* titles handed to _check_seo_title
SeoTitles ==
    { <<"B", "e", "s", "t", " ", "V", "P", "N">>,
      <<"v", "p", "n", " ", "t", "o", "p">>,
      <<"B", "e", "s", "t", " ", "a", "p", "p", " ", "s", "a", "l", "e">>,
      <<"b", "e", "s", "t", "v", "p", "n">>,
      <<>>,
      <<"x">> }

\* main_keyword values of the context: none, two words, five words, a
\* keyword with a one-letter word, and one with no word of 3 letters
SeoKeywords ==
    { <<>>,
      <<"B", "e", "s", "t", " ", "V", "P", "N">>,
      <<"b", "e", "s", "t", " ", "v", "p", "n", " ", "a", "p", "p", " ", "t", "o", "p", " ", "s", "a", "l", "e">>,
      <<"a", " ", "v", "p", "n">>,
      <<"a", "i">> }

\* transcripts and descriptions handed to _check_brand_alignment
BrandTranscripts ==
    { <<"N", "O", "R", "D", " ", "o", "k">>,
      <<"s", "u", "r", "f">>,
      <<"N", "o">> }

BrandDescriptions ==
    { <<>>,
      <<"r", "d">>,
      <<"S", "u", "r", "f">> }

\* what get_approved_brand_for_silo returns
ApprovedRows ==
    { None,
      Some([primary_brand |-> BrandNord, secondary_brand |-> Some(BrandSurf)]),
      Some([primary_brand |-> BrandNord, secondary_brand |-> None]) }

\* _check_seo_title on a title and a main_keyword
EvaluateSeoTitle ==
    /\ pc = "text_gates"
    /\ Len(history) < MaxGateEvaluations
    /\ \E title \in SeoTitles, keyword \in SeoKeywords :
        history' = Append(history,
                          [fn |-> "seo", title |-> title, keyword |-> keyword,
                           result |-> CheckSeoTitle(title, [main_keyword |-> keyword])])
    /\ UNCHANGED <<pc, args, context, score, llm, io, approved_brands, multiplier_calls,
                   script_scores, persisted, last_read, runs>>

\* _check_brand_alignment on a transcript, a description, a silo and the row
\* its lookup returns; there is no lookup without a silo
EvaluateBrandAlignment ==
    /\ pc = "text_gates"
    /\ Len(history) < MaxGateEvaluations
    /\ \E transcript \in BrandTranscripts, description \in BrandDescriptions,
          silo \in {<<>>, SiloVpn}, approved \in ApprovedRows :
        /\ silo = <<>> => approved = None
        /\ history' = Append(history,
                             [fn |-> "brand", transcript |-> transcript,
                              description |-> description, silo |-> silo,
                              approved |-> approved,
                              result |-> CheckBrandAlignment(transcript, description,
                                                             [silo |-> silo], approved)])
    /\ UNCHANGED <<pc, args, context, score, llm, io, approved_brands, multiplier_calls,
                   script_scores, persisted, last_read, runs>>

InitTextGates ==
    /\ pc = "text_gates"
    /\ args \in {a \in Arguments : a.transcript = TranscriptNord}
    /\ context = <<>>
    /\ score = NewScriptScore(args.video_id)
    /\ llm = NoCalls
    /\ io = {}
    /\ approved_brands = <<>>
    /\ multiplier_calls = <<>>
    /\ script_scores = <<>>
    /\ persisted = <<>>
    /\ last_read = None
    /\ history = <<>>
    /\ runs = <<>>

NextTextGates ==
    \/ EvaluateSeoTitle
    \/ EvaluateBrandAlignment

SpecTextGates == InitTextGates /\ [][NextTextGates]_vars

-----------------------------------------------------------------------------
(* Runs of score_video for distinct videos on one service instance, their    *)
(* steps interleaved.  The instance holds the client, the model name and the *)
(* two data services, which no step assigns; everything else a run uses is a *)
(* local variable of its own call of score_video.  runs holds, per video,    *)
(* the locals of the run and the responses its collaborators have given.     *)

RunVideos == {"v1", "v2"}

\* the arguments of the run of a video
RunArguments(video_id) ==
    {[a EXCEPT !.video_id = video_id] : a \in {b \in Arguments : b.duration_seconds = 600}}

\* the locals of a run at the entry of score_video
NewRun(run_args) ==
    [pc |-> "context", args |-> run_args, context |-> <<>>,
     score |-> NewScriptScore(run_args.video_id), responses |-> <<>>]

\* what the collaborators of a step answer: the context (or {} when the query
\* raises); for the gates the outcome of the approved-brand query, of the
\* sibling lookup and the reply of the LLM; the reply of the quality call; for
\* the multiplier the outcome of the approved-brand query and the revenue
\* rows; for rizz the stored transcript and the reply of the personality call
ResponsesAt(step) ==
    CASE step = "context" ->
            {<<>>} \cup {c \in RunContexts : c.latest_domination_score = Some(9000)}
      [] step = "gates" ->
            [brand_ok : BOOLEAN, siblings : {"none"},
             reply : {LlmRaise,
                      LlmText(<<"{", "body", "}">>, [k \in GateKeys |-> PassEntry])}]
      [] step = "quality" ->
            {LlmRaise,
             LlmText(<<"{", "body", "}">>,
                     NumericQualityData(<<2000, 1500, 1500, 1000, 800, 700>>, 0, <<>>))}
      [] step = "multiplier" -> [brand_ok : {TRUE}, perf : {<<>>}]
      [] step = "rizz" ->
            [stored : {None}, reply : {LlmRaise,
                                       LlmText(<<"{", "body", "}">>,
                                               [total_count |-> JNum(3), moments |-> 2])}]
      [] OTHER -> {}

\* Fault for C27: the context is kept in one slot of the instance, where a run
\* finds the context another run has fetched
ContextReadShared(all, video_id) ==
    LET fetched == {w \in DOMAIN all : all[w].pc # "context"}
    IN  all[CHOOSE w \in fetched : \A u \in fetched : all[w].context # <<>> \/ all[u].context = <<>>].context

\* the context a step of a run works on: the local variable context of its
\* own call (lines 94, 101, 110, 127)
ContextRead(all, video_id) == all[video_id].context

\* one step of the run of a video, given the locals of the runs in progress
\* and what the collaborators of the step answer
StepRun(all, video_id, response) ==
    LET run == all[video_id]
        ctx == ContextRead(all, video_id)
        silo == Get(ctx, "silo", <<>>)
        noted == [run EXCEPT !.responses = Append(@, response)]
    IN  CASE run.pc = "context" ->
                [noted EXCEPT !.pc = "gates", !.context = response]
          [] run.pc = "gates" ->
                LET approved == GetApprovedBrandForSilo(approved_brands, silo, response.brand_ok)
                    gates == RunGateChecks(run.args.transcript.text, run.args.title,
                                           run.args.description, ctx, approved,
                                           response.siblings, response.reply)
                IN  IF gates.raised
                    THEN [noted EXCEPT !.pc = "raised"]
                    ELSE [noted EXCEPT !.pc = "quality",
                                       !.score = ApplyGates(@, gates.results)]
          [] run.pc = "quality" ->
                [noted EXCEPT !.pc = "multiplier",
                              !.score = ApplyQuality(@, ScoreQuality(response))]
          [] run.pc = "multiplier" ->
                LET approved == IF silo # <<>>
                                THEN GetApprovedBrandForSilo(approved_brands, silo,
                                                             response.brand_ok)
                                ELSE None
                IN  [noted EXCEPT !.pc = "rizz",
                                  !.score = ApplyMultiplier(@,
                                      ComputeContextMultiplier(ctx, approved, response.perf))]
          [] run.pc = "rizz" ->
                [noted EXCEPT !.pc = "done",
                              !.score = ApplyRizz(@, ScoreRizz(run.args.transcript, None,
                                                               run.args.duration_seconds,
                                                               response.reply))]
          [] OTHER -> run

\* a step of one of the runs
RunStep ==
    /\ pc = "runs"
    /\ \E video_id \in RunVideos :
        \E response \in ResponsesAt(runs[video_id].pc) :
            runs' = [runs EXCEPT ![video_id] = StepRun(runs, video_id, response)]
    /\ UNCHANGED <<pc, args, context, score, llm, io, approved_brands, multiplier_calls,
                   script_scores, persisted, last_read, history>>

InitRuns ==
    /\ pc = "runs"
    /\ args \in {a \in Arguments : a.transcript = TranscriptNord}
    /\ context = <<>>
    /\ score = NewScriptScore(args.video_id)
    /\ llm = NoCalls
    /\ io = {}
    /\ approved_brands \in ApprovedBrandTables
    /\ multiplier_calls = <<>>
    /\ script_scores = <<>>
    /\ persisted = <<>>
    /\ last_read = None
    /\ history = <<>>
    /\ \E a1 \in RunArguments("v1"), a2 \in RunArguments("v2") :
        runs = [v \in RunVideos |-> IF v = "v1" THEN NewRun(a1) ELSE NewRun(a2)]

NextRuns == RunStep

SpecRuns == InitRuns /\ [][NextRuns]_vars

-----------------------------------------------------------------------------
(* Properties *)

\* run_gate_checks has returned
GatesReturned == ~IsNone(llm.gates)

\* the AI-gate call raised, or its text did not parse to a dict
GateCallFailed == GatesReturned /\ ~ReplyIsDict(Val(llm.gates))

\* an AI-gate reply that answers every gate with a pass
WorkingGateReply == LlmText(<<"{", "body", "}">>, [k \in GateKeys |-> PassEntry])

\* gates 1 and 2 as they come out when the AI-gate call works
DeterministicGates ==
    LET approved == GetApprovedBrandForSilo(approved_brands, Get(context, "silo", <<>>),
                                            "approved_brand" \notin io)
    IN  SubSeq(RunGateChecks(args.transcript.text, args.title, args.description,
                             context, approved, "none", WorkingGateReply).results, 1, 2)

\* C1: whenever run_gate_checks returns, whatever the AI-gate call did (a
\* reply, a raise, a text that does not parse, a JSON object without gate
\* entries), it returns exactly 6 results, named by the six gate names, no
\* name twice
C1_SixDistinctGates ==
    GatesReturned =>
        /\ Len(score.gate_results) = 6
        /\ [i \in 1..6 |-> score.gate_results[i].gate_name] = GateNames
        /\ \A i, j \in 1..6 :
              i # j => score.gate_results[i].gate_name # score.gate_results[j].gate_name

\* a parsed reply without the funnel_match entry, and six gates all the same
C1_Witness ==
    /\ GatesReturned
    /\ ReplyIsDict(Val(llm.gates))
    /\ Val(llm.gates).data["funnel_match"] = JAbsent
    /\ Val(llm.gates).data["partner_safety"] = FailEntry
    /\ Len(score.gate_results) = 6

\* C2: when the AI-gate call raises or its text does not parse, gates 3-6
\* all pass with the reason "Gate check unavailable", and gates 1 and 2 are
\* what they are with a working call
C2_FailOpen ==
    GateCallFailed =>
        /\ Len(score.gate_results) = 6
        /\ \A i \in 3..6 :
              /\ score.gate_results[i].passed = JBool(TRUE)
              /\ score.gate_results[i].failure_reason.kind = "Gate check unavailable - API error"
        /\ SubSeq(score.gate_results, 1, 2) = DeterministicGates

\* a truncated reply, the Brand gate failed, the four AI gates passed
C2_Witness ==
    /\ GateCallFailed
    /\ Val(llm.gates).outcome = "text"
    /\ ~JsonLoadsOk(ParseJsonResponse(Val(llm.gates).text))
    /\ score.gate_results[1].passed = JBool(FALSE)
    /\ score.gate_results[6].passed = JBool(TRUE)

\* the quality call raised, its text did not parse to a dict, or a value of
\* the dict has the wrong type
QualityCallFailed == ~IsNone(llm.quality) /\ QualityRaises(Val(llm.quality))

\* the personality-density call was made and failed
PersonalityCallFailed == ~IsNone(llm.personality) /\ PersonalityRaises(Val(llm.personality))

\* C3: no outcome of the three LLM calls keeps score_video from returning a
\* record.  In the record a failed AI-gate call leaves four passed gates, a
\* failed quality call a null quality score, a failed personality call the
\* fallback sub-score 10 inside a rizz score that is still computed; gates 1-2,
\* the quality total, the multiplier and the other copy sub-metrics are what
\* their own component yields, whatever the other calls did
C3_LlmFailuresIsolated ==
    /\ pc = "raised" => llm = NoCalls
    /\ pc = "done" =>
        /\ ~IsNone(llm.gates) /\ ~IsNone(llm.quality)
        /\ Len(score.gate_results) = 6
        /\ SubSeq(score.gate_results, 1, 2) = DeterministicGates
        /\ GateCallFailed => \A i \in 3..6 : score.gate_results[i].passed = JBool(TRUE)
        /\ IsNone(score.quality_score_total) <=> QualityCallFailed
        /\ ~QualityCallFailed =>
              score.quality_score_total
                  = Some(Val(ScoreQuality(Val(llm.quality))).quality_score_total)
        /\ ~IsNone(score.context_multiplier) /\ ~IsNone(score.quality_floor)
        /\ ~IsNone(llm.personality) =>
              /\ ~IsNone(score.rizz_score)
              /\ Val(score.rizz_details).copy.sentence_variation
                     = SentenceVariation(args.transcript.sentence_cv)
              /\ Val(score.rizz_details).copy.decisive_language
                     = DecisiveScore(args.transcript.decisive_count,
                                     args.transcript.hedging_count)
              /\ PersonalityCallFailed =>
                     Val(score.rizz_details).copy.personality_density = 10

\* a finished run whose three LLM calls all raised
C3_Witness ==
    /\ pc = "done"
    /\ llm = [gates |-> Some(LlmRaise), quality |-> Some(LlmRaise),
              personality |-> Some(LlmRaise)]
    /\ IsNone(score.quality_score_total)
    /\ ~IsNone(score.rizz_score)

\* C4: no failure of a data collaborator leaves score_video as an exception
C4_NoCollaboratorFailureEscapes == io # {} => pc # "raised"

\* the gate results that count as passed, counted as store_script_score
\* counts them (by truth value)
PassedCount ==
    Cardinality({i \in 1..Len(score.gate_results) : Truthy(score.gate_results[i].passed)})

\* C5: in a returned record all_gates_passed is true exactly when 6 gate
\* results count as passed
C5_AllGatesPassedIffSix ==
    pc = "done" =>
        /\ ~IsNone(score.all_gates_passed)
        /\ Val(score.all_gates_passed) <=> PassedCount = 6

\* a returned record with five passed gates
C5_Witness ==
    /\ pc = "done"
    /\ score.all_gates_passed = Some(FALSE)
    /\ PassedCount = 5

\* score_quality returned a result, and the record holds it
QualityReturned == ~IsNone(llm.quality) /\ ~QualityRaises(Val(llm.quality))

\* the sum of the six dimension totals of the record
DimensionSum ==
    Val(score.specificity_score) + Val(score.conversion_arch_score)
    + Val(score.retention_arch_score) + Val(score.authenticity_score)
    + Val(score.viewer_respect_score) + Val(score.production_score)

\* C6 as claimed: the quality total is exactly the sum of the six dimension
\* totals
C6_TotalIsExactSum ==
    QualityReturned => Val(score.quality_score_total) = DimensionSum

\* C6: the quality total is within 1 point of the sum of the six dimension
\* totals: it is the sum rounded to one decimal when the reported total is
\* more than 1 off the sum, and the reported total otherwise
C6_TotalWithinOneOfSum ==
    QualityReturned =>
        LET total == Val(score.quality_score_total)
            reported == ReportedTotal(Val(llm.quality).data).n
        IN  /\ Abs(total - DimensionSum) <= 1 * Scale
            /\ Abs(reported - DimensionSum) > 1 * Scale =>
                  /\ total % 10 = 0
                  /\ 2 * Abs(total - DimensionSum) <= 10
            /\ Abs(reported - DimensionSum) <= 1 * Scale => total = reported

\* a reported total 1.01 off the sum, replaced by the sum
C6_Witness ==
    /\ QualityReturned
    /\ ReportedTotal(Val(llm.quality).data).n = DimensionSum + 101
    /\ Val(score.quality_score_total) = DimensionSum

\* C7: the quality total lies in [0, 100]
C7_TotalInRange ==
    QualityReturned =>
        /\ 0 <= Val(score.quality_score_total)
        /\ Val(score.quality_score_total) <= 100 * Scale

\* the quality call raised or its text is no JSON document
QualityCallUnparseable ==
    /\ ~IsNone(llm.quality)
    /\ \/ Val(llm.quality).outcome = "raise"
       \/ ~JsonLoadsOk(ParseJsonResponse(Val(llm.quality).text))

\* C8: when the quality call raises or its text does not parse, the returned
\* record has a null quality total, null dimension scores and a null
\* multiplied score, and still has its six gate results, its context
\* multiplier and its quality floor
C8_NullQualityOnFailure ==
    (pc = "done" /\ QualityCallUnparseable) =>
        /\ IsNone(score.quality_score_total)
        /\ IsNone(score.specificity_score) /\ IsNone(score.production_score)
        /\ IsNone(score.multiplied_score)
        /\ IsNone(score.passes_quality_floor)
        /\ Len(score.gate_results) = 6
        /\ ~IsNone(score.all_gates_passed)
        /\ ~IsNone(score.context_multiplier)
        /\ ~IsNone(score.quality_floor)

\* a returned record after a prose answer to the quality call
C8_Witness ==
    /\ pc = "done"
    /\ llm.quality = Some(LlmText(<<"prose">>, <<>>))
    /\ IsNone(score.multiplied_score)
    /\ score.context_multiplier = Some(150)

\* C9: in a returned record with a quality total, multiplied_score is the
\* product of the quality total and the record's context_multiplier, rounded
\* to one decimal: a multiple of 0.1 no further than 0.05 from the product
C9_MultipliedScoreRounded ==
    (pc = "done" /\ ~IsNone(score.quality_score_total)) =>
        /\ ~IsNone(score.multiplied_score)
        /\ LET product == Val(score.quality_score_total) * Val(score.context_multiplier)
               multiplied == Val(score.multiplied_score)
           IN  /\ multiplied % 10 = 0
               /\ 2 * Abs(Scale * multiplied - product) <= 10 * Scale

\* 76.25 times 1.5 is 114.375, stored as 114.4
C9_Witness ==
    /\ pc = "done"
    /\ score.quality_score_total = Some(7625)
    /\ score.context_multiplier = Some(150)
    /\ score.multiplied_score = Some(11440)

\* the rows of MULTIPLIER_TABLE: (0.5, 50), (0.8, 60), (1.0, 70), (1.2, 70),
\* (1.5, 80)
MultiplierRows == { <<50, 50>>, <<80, 60>>, <<100, 70>>, <<120, 70>>, <<150, 80>> }

\* C10: in a returned record, also when the context could not be fetched,
\* (context_multiplier, quality_floor) is one of the five rows of the table
C10_MultiplierRow ==
    pc = "done" =>
        /\ ~IsNone(score.context_multiplier) /\ ~IsNone(score.quality_floor)
        /\ <<Val(score.context_multiplier), Val(score.quality_floor)>> \in MultiplierRows

\* a returned record of a run whose context lookup raised
C10_Witness ==
    /\ pc = "done"
    /\ "video_context" \in io
    /\ score.context_multiplier = Some(50)
    /\ score.quality_floor = Some(50)

\* the row of the decision table for a context, given whether its silo has an
\* approved-brand row and the revenue rows of the video
DecisionTableRow(ctx, approved, perf) ==
    LET silo == Get(ctx, "silo", <<>>)
        dom == Get(ctx, "latest_domination_score", None)
    IN  IF silo = <<>> THEN <<"ai_skeleton", "ai_skeleton", 50, 50>>
        ELSE IF ~IsNone(approved)
        THEN IF ~IsNone(dom) /\ Val(dom) >= 90 * Scale
             THEN <<"tier1", "tier1_high_dom", 100, 70>>
             ELSE <<"tier1", "tier1_low_dom", 150, 80>>
        ELSE IF \E i \in 1..Len(perf) : perf[i] > 0
             THEN <<"tier2", "tier2_proven", 120, 70>>
             ELSE <<"tier2", "tier2_unproven", 80, 60>>

\* C11: every call of compute_context_multiplier returns the tier, bucket,
\* multiplier and floor of the decision table (no silo: ai_skeleton 0.5/50; an
\* approved-brand row: tier1, 1.0/70 from a domination score of 90, else
\* 1.5/80; no row: tier2, 1.2/70 with any revenue, else 0.8/60) and the
\* context's domination score
C11_DecisionTable ==
    \A i \in 1..Len(multiplier_calls) :
        LET c == multiplier_calls[i]
        IN  /\ <<c.result.keyword_tier, c.result.bucket, c.result.multiplier,
                 c.result.quality_floor>> = DecisionTableRow(context, c.approved, c.perf)
            /\ c.result.domination_score = Get(context, "latest_domination_score", None)

\* C12 as claimed: all calls of compute_context_multiplier on one
\* (video_id, context) return the same result, whatever store_approved_brand
\* and delete_approved_brand did between them
C12_PureFunction ==
    \A i, j \in 1..Len(multiplier_calls) :
        multiplier_calls[i].result = multiplier_calls[j].result

\* C12: calls of compute_context_multiplier on one (video_id, context) return
\* the same result whenever the approved-brands table agrees, at the calls, on
\* whether the context's silo has a row, its query fares the same, and the
\* revenue rows are the same; rows of other silos and the brands of the row
\* do not matter
C12_SameLookupsSameResult ==
    \A i, j \in 1..Len(multiplier_calls) :
        LET a == multiplier_calls[i]
            b == multiplier_calls[j]
        IN  (a.mapped = b.mapped /\ a.brand_ok = b.brand_ok /\ a.perf = b.perf)
                => a.result = b.result

\* two calls on a silo whose row was replaced between them, with one result
C12_Witness ==
    /\ Len(multiplier_calls) = 2
    /\ multiplier_calls[1].mapped /\ multiplier_calls[2].mapped
    /\ ~IsNone(multiplier_calls[1].approved) /\ ~IsNone(multiplier_calls[2].approved)
    /\ multiplier_calls[1].approved # multiplier_calls[2].approved
    /\ multiplier_calls[1].result = multiplier_calls[2].result
    /\ multiplier_calls[1].result.keyword_tier = "tier1"

NoLater(a, b) ==
    LET x == FromIsoFormat(a)
        y == FromIsoFormat(b)
    IN  x.sec < y.sec \/ (x.sec = y.sec /\ x.micro <= y.micro)

\* the stored records of a video
RecordsOf(video_id) == {r \in Rows(script_scores) : r.video_id = video_id}

\* a stored record than which no record of its video is later
IsLatestRecord(r) ==
    /\ r \in Rows(script_scores)
    /\ \A q \in RecordsOf(r.video_id) : NoLater(q.scored_at, r.scored_at)

\* C14: a get_script_score whose query ran returns null for a video without
\* records and otherwise the video's stored record with the greatest
\* scored_at; a get_all_script_scores whose query ran returns one record for
\* each video that has records, its latest one
C14_ReadsReturnLatest ==
    (~IsNone(last_read) /\ Val(last_read).ok) =>
        LET read == Val(last_read)
        IN  IF read.op = "get_script_score"
            THEN IF RecordsOf(read.video_id) = {}
                 THEN IsNone(read.result)
                 ELSE /\ ~IsNone(read.result)
                      /\ Val(read.result).video_id = read.video_id
                      /\ IsLatestRecord(Val(read.result))
            ELSE /\ \A i \in 1..Len(read.result) : IsLatestRecord(read.result[i])
                 /\ \A v \in StoredVideos :
                        Cardinality({i \in 1..Len(read.result) : read.result[i].video_id = v})
                            = IF RecordsOf(v) = {} THEN 0 ELSE 1

\* a read of a video with three records, two of them within one second
C14_Witness ==
    /\ ~IsNone(last_read)
    /\ Val(last_read).op = "get_script_score"
    /\ Val(last_read).ok
    /\ Cardinality(RecordsOf(Val(last_read).video_id)) = 3
    /\ Val(last_read).result = Some([video_id |-> Val(last_read).video_id,
                                     scored_at |-> <<2, 500000>>,
                                     multiplied_score |-> None])
    /\ <<2>> \in {r.scored_at : r \in RecordsOf(Val(last_read).video_id)}

\* C15: a run of score_video that has returned has handed its record to
\* store_script_score exactly once, and the table holds a record of its video
C15_RunPersistsRecord ==
    pc = "done" =>
        /\ Len(persisted) = 1
        /\ persisted[1].video_id = args.video_id
        /\ \E k \in DOMAIN script_scores : k[1] = args.video_id

\* the bracket-balancing repair of a reply text: the closing bracket a
\* truncated document lacks is put at its end
BalanceBrackets(text) ==
    IF text # <<>> /\ Head(text) = "{" /\ text[Len(text)] # "}" THEN Append(text, "}")
    ELSE IF text # <<>> /\ Head(text) = "[" /\ text[Len(text)] # "]" THEN Append(text, "]")
    ELSE text

\* the reply of a call is a truncated text: it does not parse once its fences
\* are stripped, and parses to a JSON object once its brackets are balanced
RepairedReplyParses(call) ==
    /\ ~IsNone(call)
    /\ Val(call).outcome = "text"
    /\ ~JsonLoadsOk(ParseJsonResponse(Val(call).text))
    /\ JsonLoadsOk(BalanceBrackets(ParseJsonResponse(Val(call).text)))
    /\ JsonIsObject(ParseJsonResponse(Val(call).text))

\* the record shows the fallback of the AI gates
GatesShowFallback ==
    /\ Len(score.gate_results) = 6
    /\ \A i \in 3..6 : score.gate_results[i].failure_reason = UnavailableReason

\* C16: a truncated reply that parses after fence stripping and bracket
\* balancing does not fail its component: the AI gates are not the fallback
\* on such a reply of the gate call
C16_RepairBeforeFailure == RepairedReplyParses(llm.gates) => ~GatesShowFallback

\* score_rizz has returned and its result is in the record
RizzReturned == pc = "rizz_done" /\ ~IsNone(score.rizz_details)

\* C17: in every result of score_rizz the score is a one-decimal value within
\* 0.05 of vocal_weighted + copy_weighted and lies in [0,100], vocal_weighted
\* lies in [0,60] and copy_weighted in [0,40]
C17_RizzComposition ==
    RizzReturned =>
        LET rizz == Val(score.rizz_score)
            vocal_weighted == Val(score.rizz_vocal_score)
            copy_weighted == Val(score.rizz_copy_score)
        IN  /\ rizz % 10 = 0
            /\ rizz - (vocal_weighted + copy_weighted) \in -5..5
            /\ 0 <= rizz /\ rizz <= 100 * Scale
            /\ 0 <= vocal_weighted /\ vocal_weighted <= 60 * Scale
            /\ 0 <= copy_weighted /\ copy_weighted <= 40 * Scale

\* a result with emotion data where both parts reach their maximum
C17_Witness ==
    /\ RizzReturned
    /\ Val(score.rizz_details).vocal_available
    /\ Val(score.rizz_vocal_score) = 60 * Scale
    /\ Val(score.rizz_copy_score) = 40 * Scale
    /\ Val(score.rizz_score) = 100 * Scale

\* score_rizz was handed no emotion data: None, or a dict with no segments
NoEmotionData == IsNone(last_read) \/ Val(last_read).segments = 0

\* C18: without emotion data the vocal result is marked unavailable, its
\* conviction, consistency and CTA-delta sub-scores are 0, and its raw total
\* is (filler + pacing) / 40 * 100, within [0,100]
C18_VocalWithoutEmotions ==
    (RizzReturned /\ NoEmotionData) =>
        LET vocal == Val(score.rizz_details).vocal
        IN  /\ ~vocal.available
            /\ ~Val(score.rizz_details).vocal_available
            /\ vocal.conviction_score = 0
            /\ vocal.conviction_consistency = 0
            /\ vocal.cta_conviction_delta = 0
            /\ 40 * vocal.total_raw =
                   (vocal.filler_density_score + vocal.pacing_variation_score) * 100 * Scale
            /\ 0 <= vocal.total_raw /\ vocal.total_raw <= 100 * Scale

\* a result for a dict with no segments whose two transcript sub-scores are
\* both at their maximum
C18_Witness ==
    /\ RizzReturned
    /\ ~IsNone(last_read)
    /\ Val(last_read).segments = 0
    /\ Val(score.rizz_details).vocal.filler_density_score = 20
    /\ Val(score.rizz_details).vocal.pacing_variation_score = 20
    /\ Val(score.rizz_details).vocal.total_raw = 100 * Scale

\* the transcript holds as many first-person as decisive phrases and as many
\* generic as hedging phrases
SameCounts ==
    /\ args.transcript.first_person_count = args.transcript.decisive_count
    /\ args.transcript.generic_count = args.transcript.hedging_count

\* C19 as stated: for the same pair of counts the first-person sub-score
\* equals the decisive sub-score
C19_SameCurve ==
    (RizzReturned /\ SameCounts) =>
        Val(score.rizz_details).copy.first_person_experience =
            Val(score.rizz_details).copy.decisive_language

\* C19: for the same pair of counts (a, b) the first-person sub-score is 25
\* for a ratio in [2,3), 20 for a ratio in [1.5,2), and the decisive sub-score
\* for every other ratio
C19_TopBandsLower ==
    (RizzReturned /\ SameCounts) =>
        LET a == args.transcript.first_person_count
            b == IF args.transcript.generic_count = 0 THEN 1
                 ELSE args.transcript.generic_count
            copy == Val(score.rizz_details).copy
        IN  copy.first_person_experience =
                IF 2 * b <= a /\ a < 3 * b THEN 25
                ELSE IF 3 * b <= 2 * a /\ a < 2 * b THEN 20
                ELSE copy.decisive_language

\* counts 2 and 1: the first-person sub-score is 25, the decisive one 20
C19_Witness ==
    /\ RizzReturned
    /\ SameCounts
    /\ args.transcript.decisive_count = 2
    /\ args.transcript.hedging_count = 1
    /\ Val(score.rizz_details).copy.first_person_experience = 25
    /\ Val(score.rizz_details).copy.decisive_language = 20

\* C20: the decisive sub-score lies in [3,25]; it is 25 when the ratio is at
\* least 3 (the ratio is the decisive count when there is no hedging phrase);
\* it is the floor 3 when both counts are 0
C20_DecisiveRange ==
    RizzReturned =>
        LET a == args.transcript.decisive_count
            b == args.transcript.hedging_count
            decisive == Val(score.rizz_details).copy.decisive_language
        IN  /\ 3 <= decisive /\ decisive <= 25
            /\ ((b > 0 /\ a >= 3 * b) \/ (b = 0 /\ a >= 3)) => decisive = 25
            /\ (a = 0 /\ b = 0) => decisive = 3

\* 6 decisive and 2 hedging phrases score 25
C20_Witness ==
    /\ RizzReturned
    /\ args.transcript.decisive_count = 6
    /\ args.transcript.hedging_count = 2
    /\ Val(score.rizz_details).copy.decisive_language = 25

\* the evaluations of one curve held in history
Evaluations(fn) == {history[i] : i \in {j \in DOMAIN history : history[j].fn = fn}}

\* the rate a / b is above 3
AboveThree(e) == e.n > 3 * e.d

\* C21 as stated: the filler sub-score is 20 exactly when the rate is within
\* [1, 3], below 20 under 1, and above 3 within [0,20] and never increasing
C21_MaxExactlyInBand ==
    /\ \A e \in Evaluations("filler") :
        /\ e.result = 20 <=> (e.d <= e.n /\ e.n <= 3 * e.d)
        /\ e.n < e.d => e.result < 20
        /\ AboveThree(e) => (0 <= e.result /\ e.result <= 20)
    /\ \A e, f \in Evaluations("filler") :
        (AboveThree(e) /\ e.n * f.d <= f.n * e.d) => f.result <= e.result

\* C21: the filler sub-score is 20 for every rate within [1, 3] and for no
\* rate under 1 or above 3 + 1/15, is below 20 under 1, and above 3 is within
\* [0,20] and never increasing
C21_MaxInBandAndJustAbove ==
    /\ \A e \in Evaluations("filler") :
        /\ (e.d <= e.n /\ e.n <= 3 * e.d) => e.result = 20
        /\ e.result = 20 => (e.d <= e.n /\ 15 * e.n <= 46 * e.d)
        /\ e.n < e.d => e.result < 20
        /\ AboveThree(e) => (0 <= e.result /\ e.result <= 20)
    /\ \A e, f \in Evaluations("filler") :
        (AboveThree(e) /\ e.n * f.d <= f.n * e.d) => f.result <= e.result

\* the rates 1 and 3.05 were evaluated and both score 20
C21_Witness ==
    /\ Len(history) = 2
    /\ history[1].fn = "filler" /\ history[1].n = history[1].d /\ history[1].result = 20
    /\ history[2].fn = "filler" /\ 20 * history[2].n = 61 * history[2].d
    /\ history[2].result = 20

\* C22: with at least 5 sentences a coefficient of variation of 0.4 and one
\* of 0.7 both score 25, and every coefficient scores within [0,25]
C22_SentenceBoundaries ==
    \A e \in Evaluations("sentence") :
        /\ 0 <= e.result /\ e.result <= 25
        /\ e.cv \in {Some(400), Some(700)} => e.result = 25

\* the coefficients 0.4 and 0.7 were evaluated and both score 25
C22_Witness ==
    /\ Len(history) = 2
    /\ history[1].fn = "sentence" /\ history[1].cv = Some(400) /\ history[1].result = 25
    /\ history[2].fn = "sentence" /\ history[2].cv = Some(700) /\ history[2].result = 25

\* C30: the CTA-delta sub-score lies in [0,20] and never decreases as the delta
\* grows: of two evaluations the one with the larger delta scores at least
\* as much
C30_CtaDeltaMonotone ==
    /\ \A e \in Evaluations("cta") : 0 <= e.result /\ e.result <= 20
    /\ \A e, f \in Evaluations("cta") : e.delta <= f.delta => e.result <= f.result

\* the words of 3 letters or more of a keyword, in lower case
SignificantWords(keyword) == SelectSeq(Split(ToLower(keyword)), LAMBDA w : Len(w) >= 3)

\* how many significant words of the keyword occur in the title
WordsInTitle(keyword, title) ==
    Cardinality({i \in 1..Len(SignificantWords(keyword)) :
                     Contains(SignificantWords(keyword)[i], ToLower(title))})

\* the texts of a sequence
TextsOf(texts) == {texts[i] : i \in 1..Len(texts)}

\* C23: the SEO gate passes without a keyword and when the keyword occurs in
\* the title, case ignored; otherwise it passes exactly when the keyword has
\* significant words and at least 60% of them occur in the title; a failure
\* names the keyword and the title; a title with none of the significant
\* words fails
C23_SeoTitleDecision ==
    \A e \in Evaluations("seo") :
        LET passed == e.result.passed = JBool(TRUE)
            words == Len(SignificantWords(e.keyword))
            found == WordsInTitle(e.keyword, e.title)
            whole == Contains(ToLower(e.keyword), ToLower(e.title))
        IN  /\ e.result.passed \in {JBool(TRUE), JBool(FALSE)}
            /\ e.keyword = <<>> => passed
            /\ whole => passed
            /\ (e.keyword # <<>> /\ ~whole) =>
                   (passed <=> (words > 0 /\ 10 * found >= 6 * words))
            /\ ~passed => {e.keyword, e.title} \subseteq TextsOf(e.result.failure_reason.texts)
            /\ (e.keyword # <<>> /\ ~whole /\ found = 0) => ~passed

\* a keyword of five significant words was evaluated against a title with
\* three of them, which passes, and against a title with two, which fails
C23_Witness ==
    /\ Len(history) = 2
    /\ history[1].fn = "seo" /\ history[2].fn = "seo"
    /\ history[1].keyword = history[2].keyword
    /\ Len(SignificantWords(history[1].keyword)) = 5
    /\ WordsInTitle(history[1].keyword, history[1].title) = 3
    /\ history[1].result.passed = JBool(TRUE)
    /\ WordsInTitle(history[2].keyword, history[2].title) = 2
    /\ history[2].result.passed = JBool(FALSE)

\* the text gate 1 searches: transcript, a space, description, in lower case
SearchedText(e) == ToLower(e.transcript \o <<" ">> \o e.description)

HasPrimary(e) == Contains(ToLower(Val(e.approved).primary_brand), SearchedText(e))

HasSecondary(e) ==
    /\ ~IsNone(Val(e.approved).secondary_brand)
    /\ Contains(ToLower(Val(Val(e.approved).secondary_brand)), SearchedText(e))

\* C24: the brand gate passes as skipped when the silo has no approved brand;
\* with one it passes without a reason when the primary brand occurs, passes
\* with a warning when only the secondary occurs, and fails naming the
\* primary brand when neither occurs; it fails in no other case
C24_BrandAlignmentDecision ==
    \A e \in Evaluations("brand") :
        LET passed == e.result.passed = JBool(TRUE)
            reason == e.result.failure_reason
        IN  /\ e.result.passed \in {JBool(TRUE), JBool(FALSE)}
            /\ IsNone(e.approved) => (passed /\ reason # NoReason)
            /\ ~IsNone(e.approved) =>
                /\ HasPrimary(e) => (passed /\ reason = NoReason)
                /\ (~HasPrimary(e) /\ HasSecondary(e)) =>
                       (passed /\ reason # NoReason
                        /\ Val(e.approved).primary_brand \in TextsOf(reason.texts))
                /\ (~HasPrimary(e) /\ ~HasSecondary(e)) =>
                       (~passed /\ Val(e.approved).primary_brand \in TextsOf(reason.texts))
            /\ ~passed => (~IsNone(e.approved) /\ ~HasPrimary(e) /\ ~HasSecondary(e))

\* a text with only the secondary brand passed with a warning, and a text with
\* neither brand failed
C24_Witness ==
    /\ Len(history) = 2
    /\ history[1].fn = "brand" /\ history[2].fn = "brand"
    /\ ~IsNone(history[1].approved) /\ ~HasPrimary(history[1]) /\ HasSecondary(history[1])
    /\ history[1].result.passed = JBool(TRUE)
    /\ history[1].result.failure_reason # NoReason
    /\ ~IsNone(history[2].approved) /\ ~HasPrimary(history[2]) /\ ~HasSecondary(history[2])
    /\ history[2].result.passed = JBool(FALSE)

\* C25: the record holds at most 3 action items, however many the reply of
\* the quality call lists
C25_AtMostThreeActionItems == Len(score.action_items) <= 3

\* the steps of a run, in the order of score_video
StepOrder == <<"context", "gates", "quality", "multiplier", "rizz">>

\* the names of the entries of one kind in history, in order
NamesOf(kind) ==
    LET entries == SelectSeq(history, LAMBDA e : e.kind = kind)
    IN  [i \in 1..Len(entries) |-> entries[i].name]

\* the step a component's LLM call belongs to
StepOfCall(name) == IF name = "personality" THEN "rizz" ELSE name

\* C26: the steps of a run happen in the order context, gates, quality,
\* multiplier, rizz; each LLM call follows the entry of its own step; and no
\* component calls the LLM twice
C26_SequentialNoRetry ==
    /\ Len(NamesOf("step")) <= Len(StepOrder)
    /\ NamesOf("step") = SubSeq(StepOrder, 1, Len(NamesOf("step")))
    /\ \A i \in DOMAIN history :
        history[i].kind = "llm" =>
            /\ i > 1
            /\ history[i - 1] = StepEntry(StepOfCall(history[i].name))
    /\ \A i, j \in DOMAIN history :
        (history[i].kind = "llm" /\ history[j].kind = "llm"
         /\ history[i].name = history[j].name) => i = j

\* a finished run whose three LLM calls all failed or were unparseable
C26_Witness ==
    /\ pc = "done"
    /\ NamesOf("step") = StepOrder
    /\ NamesOf("llm") = <<"gates", "quality", "personality">>
    /\ Val(llm.gates) = LlmRaise
    /\ ~ReplyIsDict(Val(llm.quality))
    /\ ~ReplyIsDict(Val(llm.personality))

\* gate 1 of the record was evaluated against an approved brand: it is not
\* one of the two skipped results
BrandGateEvaluated ==
    /\ Len(score.gate_results) = 6
    /\ score.gate_results[1].failure_reason.kind \notin
           {"No silo assigned - skipped", "No approved brand defined for this silo - skipped"}

\* the record of the multiplier step is written
TierDecided == pc \in {"rizz", "done"}

\* C28: in a record of a video with a silo, keyword_tier is tier1 exactly
\* when gate 1 was evaluated against an approved brand, also when the
\* approved-brands routes run between the steps of the run
C28_TierMatchesBrandGate ==
    (TierDecided /\ Get(context, "silo", <<>>) # <<>>) =>
        (score.keyword_tier = Some("tier1") <=> BrandGateEvaluated)

\* the four rizz fields of the record
RizzFields == <<score.rizz_score, score.rizz_vocal_score, score.rizz_copy_score,
                score.rizz_details>>

RizzAllSet == \A i \in 1..4 : ~IsNone(RizzFields[i])

RizzAllNull == \A i \in 1..4 : IsNone(RizzFields[i])

\* the rizz step ended in the except of score_video: no personality call was
\* made
RizzRaised == pc = "done" /\ IsNone(llm.personality)

\* a record without its rizz fields
WithoutRizz(sc) ==
    [sc EXCEPT !.rizz_score = None, !.rizz_vocal_score = None,
               !.rizz_copy_score = None, !.rizz_details = None]

\* C29 as stated: the four rizz fields are all set or all null, and a failure
\* anywhere in rizz scoring, the stored-transcript lookup and the personality
\* call included, leaves all four null
C29_AnyFailureLeavesNull ==
    pc = "done" =>
        /\ RizzAllSet \/ RizzAllNull
        /\ ("stored_transcript" \in io \/ RizzRaised \/ PersonalityCallFailed) => RizzAllNull

\* C29: the four rizz fields are all set or all null; they are all null
\* exactly when score_rizz raised; and the rizz step changes no other field
\* of the record
C29_AllOrNothing ==
    /\ [](pc = "done" =>
            /\ RizzAllSet \/ RizzAllNull
            /\ RizzRaised <=> RizzAllNull)
    /\ [][pc = "rizz" => WithoutRizz(score') = WithoutRizz(score)]_vars

\* a finished run whose score_rizz raised after quality and multiplier were
\* written: the four rizz fields are null
C29_Witness ==
    /\ RizzRaised
    /\ RizzAllNull
    /\ ~IsNone(score.quality_score_total)
    /\ ~IsNone(score.multiplied_score)
    /\ Len(score.gate_results) = 6

\* the run of a video running alone: its locals after the first n of the
\* responses it was given, with no other run on the instance
RECURSIVE RunAlone(_, _, _)
RunAlone(run_args, responses, n) ==
    IF n = 0 THEN NewRun(run_args)
    ELSE LET video_id == run_args.video_id
             before == RunAlone(run_args, responses, n - 1)
         IN  StepRun([v \in {video_id} |-> before], video_id, responses[n])

\* C27: whatever the interleaving, the locals and the record of each run are
\* those of the same run alone on the instance with the same responses
C27_RunsIsolated ==
    \A v \in DOMAIN runs :
        runs[v] = RunAlone(runs[v].args, runs[v].responses, Len(runs[v].responses))

\* one step changes the locals of one run only
C27_OneRunPerStep ==
    [][\E v \in DOMAIN runs : \A w \in DOMAIN runs \ {v} : runs'[w] = runs[w]]_vars

\* two runs with different contexts, one fetched between the steps of the
\* other, have both returned their records
C27_Witness ==
    /\ DOMAIN runs = RunVideos
    /\ runs["v1"].pc = "done" /\ runs["v2"].pc = "done"
    /\ runs["v1"].context # runs["v2"].context
    /\ runs["v1"].context # <<>>
    /\ runs["v1"].score.keyword_tier # runs["v2"].score.keyword_tier

====
